---- MODULE Spec2Model ----
(***************************************************************************)
(* Model of gmb_dashboard.py, in four specifications over one state:       *)
(*   SpecSentiment  get_reviews -> analyze_sentiment ->                    *)
(*                  generate_sentiment_summary                             *)
(*   SpecReport     create_pdf_report and export_to_excel on a payload     *)
(*   SpecInsights   get_insights on one request                            *)
(*   Spec           the runs of main, one user interaction after another   *)
(*                                                                         *)
(* Numbers: a polarity is an integer number of hundredths (0.1 is 10).     *)
(* A mean is kept exact, as the pair sum / count.                          *)
(* Text: a sequence of pieces (words and punctuation marks) separated by   *)
(* blanks; a piece is its lower-case spelling plus a flag saying whether   *)
(* its first letter is a capital.                                          *)
(***************************************************************************)
EXTENDS Integers, Sequences, FiniteSets, TLC

VARIABLES
    pc,                 \* position in the pipeline, or in the run of main
    reviews_response,   \* reviews_response.get('reviews', []) of get_reviews
    reviews_df,         \* the reviews DataFrame
    sentiment_summary,  \* what generate_sentiment_summary returned or raised
    export_data,        \* the payload handed to the serializer
    pdf_story,          \* the flowables create_pdf_report builds the document from
    excel_file,         \* what export_to_excel wrote, or the exception it raised
    serializer_calls,   \* the serializer calls made so far: <<function, filename>>
    insights_request,   \* a call of get_insights: its arguments and what the API does
    insights_result,    \* what that call returned or raised
    session,            \* st.session_state
    gmb,                \* st.session_state.gmb_analytics: its service and credentials
    secrets,            \* st.secrets: what of [oauth2] is configured
    cycle,              \* the number of user interactions so far
    widgets,            \* what the user entered for the current run of main
    locations,          \* main's locations
    loop_index,         \* the position of the loop over filtered_locations
    total_insights,     \* main's accumulator of insights
    all_reviews,        \* main's accumulator of reviews
    location_insights,  \* main's insights: the frame fetched last
    location_reviews,   \* main's reviews: the frame fetched last
    displayed,          \* the figures st.metric showed in the current run
    error,              \* the exception that ended the current run, "" if none
    calls,              \* the external calls issued for the current interaction
    fetched,            \* the rows get_insights and get_reviews returned for it
    auth_call           \* a call of an authentication method: what it was given and gave

sentimentVars == <<reviews_response, reviews_df, sentiment_summary>>

reportVars == <<export_data, pdf_story, excel_file, serializer_calls>>

insightsVars == <<insights_request, insights_result>>

authVars == <<auth_call>>

sessionVars == <<session, gmb, secrets>>

runVars ==
    <<widgets, locations, loop_index, total_insights, all_reviews,
      location_insights, location_reviews,
      displayed, error, calls, fetched>>

mainVars == <<sessionVars, cycle, runVars>>

vars ==
    <<pc, reviews_response, reviews_df, sentiment_summary,
      export_data, pdf_story, excel_file, serializer_calls,
      insights_request, insights_result,
      session, gmb, secrets, cycle, widgets, locations, loop_index, total_insights,
      all_reviews, location_insights, location_reviews, displayed, error, calls, fetched,
      auth_call>>

\* The variables outside each part of the program.
outsideSentiment == <<reportVars, insightsVars, mainVars, authVars>>

outsideReport == <<sentimentVars, insightsVars, mainVars, authVars>>

outsideInsights == <<sentimentVars, reportVars, mainVars, authVars>>

\* Bounds of the model.
MaxReviews == 3
MaxMetrics == 2

\* Program constants.
PositiveThreshold == 10
NegativeThreshold == -10
MinWordLen == 3
TopKeywords == 5
DefaultStarRating == 0

(***************************************************************************)
(* Text                                                                    *)
(***************************************************************************)
Tok(w, cap) == [w |-> w, cap |-> cap]

Punctuation == {",", "!", "."}

TextEmpty == <<>>

\* "Excellent service, excellent staff"
TextExcellent ==
    <<Tok("excellent", TRUE), Tok("service", FALSE), Tok(",", FALSE),
      Tok("excellent", FALSE), Tok("staff", FALSE)>>

\* "Terrible rude staff"
TextTerrible == <<Tok("terrible", TRUE), Tok("rude", FALSE), Tok("staff", FALSE)>>

\* "The staff was great, helpful, friendly!"
TextGreat ==
    <<Tok("the", TRUE), Tok("staff", FALSE), Tok("was", FALSE), Tok("great", FALSE),
      Tok(",", FALSE), Tok("helpful", FALSE), Tok(",", FALSE), Tok("friendly", FALSE),
      Tok("!", FALSE)>>

\* "Decent place."
TextDecent == <<Tok("decent", TRUE), Tok("place", FALSE), Tok(".", FALSE)>>

\* "Bland food"
TextBland == <<Tok("bland", TRUE), Tok("food", FALSE)>>

\* "Rude Staff, rude"
TextRude == <<Tok("rude", TRUE), Tok("staff", TRUE), Tok(",", FALSE), Tok("rude", FALSE)>>

\* TextBlob(text).words: the pieces that are words, punctuation stripped.
Words(text) == SelectSeq(text, LAMBDA t : t.w \notin Punctuation)

\* word.lower()
Lower(t) == t.w

\* len(word)
WordLen(t) == Len(t.w)

\* The polarity lexicon of the external scorer, in hundredths.  The scorer is
\* a black box "text in, score in [-1, 1] out"; this lexicon stands for it.
LexiconWords == {"excellent", "great", "friendly", "decent", "bland", "rude", "terrible"}

Lexicon(w) ==
    CASE w = "excellent" -> 100
      [] w = "great"     -> 80
      [] w = "friendly"  -> 37
      [] w = "decent"    -> 10
      [] w = "bland"     -> -10
      [] w = "rude"      -> -30
      [] w = "terrible"  -> -100
      [] OTHER           -> 0

RECURSIVE SumPolarity(_)
SumPolarity(ws) ==
    IF ws = <<>> THEN 0 ELSE Lexicon(Lower(Head(ws))) + SumPolarity(Tail(ws))

\* TextBlob(text).sentiment.polarity: the mean polarity of the assessed words,
\* 0.0 when no word is assessed (an empty text included).
Polarity(text) ==
    LET assessed == SelectSeq(Words(text), LAMBDA t : Lower(t) \in LexiconWords)
        total    == SumPolarity(assessed)
        n        == Len(assessed)
    IN  IF n = 0 THEN 0
        ELSE IF total >= 0 THEN total \div n ELSE -((-total) \div n)

(***************************************************************************)
(* analyze_sentiment                                                       *)
(***************************************************************************)
Labels == {"Positive", "Negative", "Neutral"}

analyze_sentiment_ge(text) ==
    LET polarity == Polarity(text)
    IN  IF polarity >= PositiveThreshold THEN "Positive"
        ELSE IF polarity <= NegativeThreshold THEN "Negative"
        ELSE "Neutral"

analyze_sentiment(text) ==
    LET polarity == Polarity(text)
    IN  IF polarity > PositiveThreshold THEN "Positive"
        ELSE IF polarity < NegativeThreshold THEN "Negative"
        ELSE "Neutral"

(***************************************************************************)
(* get_reviews: the rows built from the upstream response                  *)
(***************************************************************************)
\* An upstream review: the keys it carries, and their values.
Raw(keys, stars, comment) == [keys |-> keys, starRating |-> stars, comment |-> comment]

Both == {"starRating", "comment"}

RawReviews ==
    { Raw(Both, 5, TextExcellent),
      Raw(Both, 1, TextTerrible),
      Raw(Both, 4, TextGreat),
      Raw(Both, 2, TextDecent),
      Raw(Both, 3, TextBland),
      Raw(Both, 2, TextRude),
      Raw({"starRating"}, 3, TextEmpty),
      Raw({"comment"}, 0, TextGreat) }

RECURSIVE SeqsUpTo(_, _)
SeqsUpTo(S, n) ==
    IF n = 0 THEN {<<>>}
    ELSE LET shorter == SeqsUpTo(S, n - 1)
         IN  shorter \cup {Append(s, x) : s \in {t \in shorter : Len(t) = n - 1}, x \in S}

Responses == SeqsUpTo(RawReviews, MaxReviews)

NoSentiment == ""

\* pd.DataFrame() and pd.DataFrame([]): no rows and no columns.
EmptyFrame == [columns |-> {}, rows |-> <<>>]

\* review.get('starRating', 0)
StarRating(review) ==
    IF "starRating" \in review.keys THEN review.starRating ELSE DefaultStarRating

\* review.get('comment', '')
Comment(review) == IF "comment" \in review.keys THEN review.comment ELSE TextEmpty

ReviewRow(i, review) ==
    [id |-> i, rating |-> StarRating(review), text |-> Comment(review),
     sentiment |-> NoSentiment]

\* Lines 370-383.  The columns author, date and reply are carried along by the
\* code and read by none of the operations below; they are left out.
ReviewsFrame(reviews) ==
    IF reviews = <<>> THEN EmptyFrame
    ELSE [columns |-> {"id", "rating", "text"},
          rows    |-> [i \in 1..Len(reviews) |-> ReviewRow(i, reviews[i])]]

\* reviews.empty
IsEmpty(df) == df.rows = <<>> \/ df.columns = {}

ApplySentimentFirst(df) ==
    [columns |-> df.columns \cup {"sentiment"},
     rows    |-> [i \in 1..Len(df.rows) |->
                    IF i = 1
                    THEN [df.rows[i] EXCEPT !.sentiment = analyze_sentiment(df.rows[i].text)]
                    ELSE df.rows[i]]]

\* reviews['sentiment'] = reviews['text'].apply(analyze_sentiment)
ApplySentiment(df) ==
    [columns |-> df.columns \cup {"sentiment"},
     rows    |-> [i \in 1..Len(df.rows) |->
                    [df.rows[i] EXCEPT !.sentiment = analyze_sentiment(df.rows[i].text)]]]

(***************************************************************************)
(* generate_sentiment_summary                                              *)
(***************************************************************************)
SentimentOrder == <<"Positive", "Negative", "Neutral">>

\* reviews_df[reviews_df['sentiment'] == sentiment]: the rows keep their order.
SentimentReviews(df, sentiment) ==
    SelectSeq(df.rows, LAMBDA r : r.sentiment = sentiment)

HasReviewsAlways(sentiment_reviews) == TRUE

\* len(sentiment_reviews) > 0
HasReviews(sentiment_reviews) == Len(sentiment_reviews) > 0

\* ' '.join(sentiment_reviews['text'].tolist())
RECURSIVE JoinTexts(_)
JoinTexts(sentiment_reviews) ==
    IF sentiment_reviews = <<>> THEN TextEmpty
    ELSE Head(sentiment_reviews).text \o JoinTexts(Tail(sentiment_reviews))

MapLower(ws) == [i \in 1..Len(ws) |-> Lower(ws[i])]

\* [word.lower() for word in blob.words if len(word) > 3]
KeywordWords(sentiment_reviews) ==
    MapLower(SelectSeq(Words(JoinTexts(sentiment_reviews)),
                       LAMBDA t : WordLen(t) > MinWordLen))

Range(s) == {s[i] : i \in DOMAIN s}

Count(words, w) == Cardinality({i \in DOMAIN words : words[i] = w})

MostFrequent(remaining, words) ==
    {w \in remaining : \A v \in remaining : Count(words, w) >= Count(words, v)}

\* The orders a sort by descending count can leave the first k distinct words
\* in.  Series.sort_values sorts with numpy's quicksort, which is not a stable
\* sort: words of equal count come out in an order the build decides.
RECURSIVE RankChoices(_, _, _)
RankChoices(remaining, words, k) ==
    IF k = 0 \/ remaining = {} THEN {<<>>}
    ELSE UNION {{<<w>> \o r : r \in RankChoices(remaining \ {w}, words, k - 1)} :
                w \in MostFrequent(remaining, words)}

ValueCountsHeadMore(words, k) == RankChoices(Range(words), words, k + 1)

\* pd.Series(words).value_counts().head(k).index.tolist(): every list the call
\* can return.
ValueCountsHead(words, k) == RankChoices(Range(words), words, k)

RECURSIVE SumRatings(_)
SumRatings(rs) == IF rs = <<>> THEN 0 ELSE Head(rs).rating + SumRatings(Tail(rs))

\* sentiment_reviews['rating'].mean(), exact: num / den (0 / 0 is NaN).
Mean(sentiment_reviews) ==
    [num |-> SumRatings(sentiment_reviews), den |-> Len(sentiment_reviews)]

SampleReviewLast(sentiment_reviews) ==
    IF Len(sentiment_reviews) > 0
    THEN sentiment_reviews[Len(sentiment_reviews)].text ELSE TextEmpty

\* sentiment_reviews.iloc[0]['text'] if len(sentiment_reviews) > 0 else ""
SampleReview(sentiment_reviews) ==
    IF Len(sentiment_reviews) > 0 THEN sentiment_reviews[1].text ELSE TextEmpty

\* The lists the value_counts calls of the three sentiments can return.
KeywordsOf(df, sentiment) ==
    ValueCountsHead(KeywordWords(SentimentReviews(df, sentiment)), TopKeywords)

KeywordsFor(df) ==
    {[s \in Labels |-> IF s = "Positive" THEN kp ELSE IF s = "Negative" THEN kn ELSE ku] :
        kp \in KeywordsOf(df, "Positive"),
        kn \in KeywordsOf(df, "Negative"),
        ku \in KeywordsOf(df, "Neutral")}

SummaryEntryAllRatings(df, sentiment, keywords) ==
    [label         |-> sentiment,
     count         |-> Len(SentimentReviews(df, sentiment)),
     avg_rating    |-> Mean(df.rows),
     keywords      |-> keywords,
     sample_review |-> SampleReview(SentimentReviews(df, sentiment))]

SummaryEntryAllCount(df, sentiment, keywords) ==
    [label         |-> sentiment,
     count         |-> Len(df.rows),
     avg_rating    |-> Mean(SentimentReviews(df, sentiment)),
     keywords      |-> keywords,
     sample_review |-> SampleReview(SentimentReviews(df, sentiment))]

\* Lines 456-461: the entry of one sentiment.
SummaryEntry(df, sentiment, keywords) ==
    [label         |-> sentiment,
     count         |-> Len(SentimentReviews(df, sentiment)),
     avg_rating    |-> Mean(SentimentReviews(df, sentiment)),
     keywords      |-> keywords,
     sample_review |-> SampleReview(SentimentReviews(df, sentiment))]

\* The call's outcome: the dict it returns, as its entries in insertion order,
\* or the exception it raises.  keywords[s] is the list value_counts returned
\* for sentiment s.
generate_sentiment_summary(df, keywords) ==
    IF "sentiment" \notin df.columns
    THEN [raised |-> "KeyError", value |-> <<>>]
    ELSE LET each == [i \in 1..Len(SentimentOrder) |->
                        SummaryEntry(df, SentimentOrder[i], keywords[SentimentOrder[i]])]
         IN  [raised |-> "",
              value  |-> SelectSeq(each,
                            LAMBDA e : HasReviews(SentimentReviews(df, e.label)))]

NotCalled == [raised |-> "not called", value |-> <<>>]

(***************************************************************************)
(* create_pdf_report                                                       *)
(* A string the code transforms is a sequence of one-character strings.    *)
(***************************************************************************)
LowerCase ==
    <<"a", "b", "c", "d", "e", "f", "g", "h", "i", "j", "k", "l", "m",
      "n", "o", "p", "q", "r", "s", "t", "u", "v", "w", "x", "y", "z">>

UpperCase ==
    <<"A", "B", "C", "D", "E", "F", "G", "H", "I", "J", "K", "L", "M",
      "N", "O", "P", "Q", "R", "S", "T", "U", "V", "W", "X", "Y", "Z">>

DigitChars == <<"0", "1", "2", "3", "4", "5", "6", "7", "8", "9">>

IsLower(c) == \E i \in DOMAIN LowerCase : LowerCase[i] = c

IsUpper(c) == \E i \in DOMAIN UpperCase : UpperCase[i] = c

ToUpper(c) ==
    IF IsLower(c) THEN UpperCase[CHOOSE i \in DOMAIN LowerCase : LowerCase[i] = c] ELSE c

ToLower(c) ==
    IF IsUpper(c) THEN LowerCase[CHOOSE i \in DOMAIN UpperCase : UpperCase[i] = c] ELSE c

\* key.replace('_', ' ')
ReplaceUnderscores(key) == [i \in 1..Len(key) |-> IF key[i] = "_" THEN " " ELSE key[i]]

\* str.title(): a cased character is upper-cased after an uncased one (or at
\* the start) and lower-cased after a cased one.
RECURSIVE TitleFrom(_, _)
TitleFrom(str, previous_is_cased) ==
    IF str = <<>> THEN <<>>
    ELSE LET c == Head(str)
         IN  IF IsLower(c) \/ IsUpper(c)
             THEN <<IF previous_is_cased THEN ToLower(c) ELSE ToUpper(c)>>
                  \o TitleFrom(Tail(str), TRUE)
             ELSE <<c>> \o TitleFrom(Tail(str), FALSE)

TitleCapitalize(str) ==
    [i \in 1..Len(str) |-> IF i = 1 THEN ToUpper(str[i]) ELSE ToLower(str[i])]

Title(str) == TitleFrom(str, FALSE)

\* A metric value: an int, or a float of at most two decimals kept in
\* hundredths.
IntValue(n) == [kind |-> "int", n |-> n]

FloatValue(hundredths) == [kind |-> "float", n |-> hundredths]

RECURSIVE StrNat(_)
StrNat(n) ==
    IF n < 10 THEN <<DigitChars[n + 1]>>
    ELSE StrNat(n \div 10) \o <<DigitChars[(n % 10) + 1]>>

\* str(value) of a non-negative number: the digits of an int; the shortest
\* decimal of a float, which keeps one digit after the point at least.
StrValue(value) ==
    IF value.kind = "int" THEN StrNat(value.n)
    ELSE LET whole == value.n \div 100
             frac  == value.n % 100
         IN  StrNat(whole) \o <<".">> \o
             (IF frac % 10 = 0 THEN <<DigitChars[(frac \div 10) + 1]>>
              ELSE <<DigitChars[(frac \div 10) + 1], DigitChars[(frac % 10) + 1]>>)

Metric(key, value) == [key |-> key, value |-> value]

\* [key.replace('_', ' ').title(), str(value)]
MetricRow(key, value) == <<Title(ReplaceUnderscores(key)), StrValue(value)>>

HeaderRow == <<<<"M", "e", "t", "r", "i", "c">>, <<"V", "a", "l", "u", "e">>>>

MetricsDataNoHeader(summary_metrics) ==
    [i \in 1..Len(summary_metrics) |->
        MetricRow(summary_metrics[i].key, summary_metrics[i].value)]

\* metrics_data: the header, then one row per item of the dict, in its order.
MetricsData(summary_metrics) ==
    <<HeaderRow>> \o
    [i \in 1..Len(summary_metrics) |->
        MetricRow(summary_metrics[i].key, summary_metrics[i].value)]

Paragraph(text) == [kind |-> "Paragraph", text |-> text, rows |-> <<>>]

Spacer == [kind |-> "Spacer", text |-> <<>>, rows |-> <<>>]

Table(rows) == [kind |-> "Table", text |-> <<>>, rows |-> rows]

\* data.get('date_range', 'N/A')
DateRange(data) == IF "date_range" \in data.keys THEN data.date_range ELSE "N/A"

create_pdf_report_named(data, filename) ==
    <<Paragraph(<<filename>>),
      Spacer,
      Paragraph(<<"Report Period: ", DateRange(data)>>),
      Spacer>>
    \o (IF "summary_metrics" \in data.keys
        THEN <<Paragraph(<<"Summary Metrics">>), Table(MetricsData(data.summary_metrics))>>
        ELSE <<>>)

\* The story doc.build renders; filename is not read.
create_pdf_report(data, filename) ==
    <<Paragraph(<<"Google My Business Analytics Report">>),
      Spacer,
      Paragraph(<<"Report Period: ", DateRange(data)>>),
      Spacer>>
    \o (IF "summary_metrics" \in data.keys
        THEN <<Paragraph(<<"Summary Metrics">>), Table(MetricsData(data.summary_metrics))>>
        ELSE <<>>)

(***************************************************************************)
(* export_to_excel                                                         *)
(***************************************************************************)
Sheet(name, columns, rows) == [name |-> name, columns |-> columns, rows |-> rows]

\* pd.DataFrame(list(data['summary_metrics'].items()), columns=['Metric', 'Value'])
SummarySheet(summary_metrics) ==
    Sheet("Summary", {"Metric", "Value"},
          [i \in 1..Len(summary_metrics) |->
              <<summary_metrics[i].key, summary_metrics[i].value>>])

\* df.to_excel(writer, sheet_name=name, index=False)
FrameSheet(name, df) == Sheet(name, df.columns, df.rows)

SheetsOfAlways(data) ==
    <<SummarySheet(data.summary_metrics),
      FrameSheet("Insights", data.insights_data),
      FrameSheet("Reviews", data.reviews_data)>>

\* The sheets written inside the ExcelWriter block, in the order written.
SheetsOf(data) ==
    (IF "summary_metrics" \in data.keys
     THEN <<SummarySheet(data.summary_metrics)>> ELSE <<>>)
    \o (IF "insights_data" \in data.keys
        THEN <<FrameSheet("Insights", data.insights_data)>> ELSE <<>>)
    \o (IF "reviews_data" \in data.keys
        THEN <<FrameSheet("Reviews", data.reviews_data)>> ELSE <<>>)

\* The workbook in the buffer, or the exception raised: closing a writer that
\* wrote no sheet raises (openpyxl saves no workbook without a sheet).
\* filename is not read.
export_to_excel(data, filename) ==
    IF SheetsOf(data) = <<>>
    THEN [raised |-> "IndexError", sheets |-> <<>>]
    ELSE [raised |-> "", sheets |-> SheetsOf(data)]

NoFile == [raised |-> "not called", sheets |-> <<>>]

\* A payload: the keys of the dict, and their values.
TablePayload(keys, date_range, summary_metrics, insights_data, reviews_data) ==
    [keys |-> keys, date_range |-> date_range, summary_metrics |-> summary_metrics,
     insights_data |-> insights_data, reviews_data |-> reviews_data]

Payload(keys, date_range, summary_metrics) ==
    TablePayload(keys, date_range, summary_metrics, EmptyFrame, EmptyFrame)

NoPayload == Payload({}, "", <<>>)

KeyTotalReviews == <<"t", "o", "t", "a", "l", "_", "r", "e", "v", "i", "e", "w", "s">>

KeyAverageRating ==
    <<"a", "v", "e", "r", "a", "g", "e", "_", "r", "a", "t", "i", "n", "g">>

KeyMixedCase == <<"a", "v", "g", "R", "a", "t", "i", "n", "g", "_", "2", "x">>

KeyPhoneCalls == <<"P", "H", "O", "N", "E", "_", "_", "c", "a", "l", "l", "s">>

MetricKeys == {KeyTotalReviews, KeyAverageRating, KeyMixedCase, KeyPhoneCalls}

MetricValues == {IntValue(6), IntValue(0), IntValue(120), FloatValue(333), FloatValue(450)}

\* The dicts of at most n items: the keys of a dict are distinct.
RECURSIVE MetricDicts(_)
MetricDicts(n) ==
    IF n = 0 THEN {<<>>}
    ELSE LET shorter == MetricDicts(n - 1)
         IN  shorter \cup
             {Append(d, Metric(k, v)) :
                d \in {t \in shorter : Len(t) = n - 1},
                k \in MetricKeys, v \in MetricValues}

HasDistinctKeys(d) == \A a, b \in DOMAIN d : d[a].key = d[b].key => a = b

Payloads ==
    {Payload(keys, date_range, summary_metrics) :
        keys \in SUBSET {"date_range", "summary_metrics"},
        date_range \in {"2024-07-01 to 2024-07-31"},
        summary_metrics \in {d \in MetricDicts(MaxMetrics) : HasDistinctKeys(d)}}

\* A table of the payload: an insights frame of one day, a reviews frame of
\* one classified review.
SampleInsights ==
    [columns |-> {"date", "search_impressions", "location_id"},
     rows    |-> <<[date |-> 1, search_impressions |-> 120, location_id |-> "loc_1"]>>]

SampleReviews == ApplySentiment(ReviewsFrame(<<Raw(Both, 5, TextExcellent)>>))

\* Payloads that carry tables.
TablePayloads ==
    {TablePayload(keys, "2024-07-01 to 2024-07-31", summary_metrics,
                  insights_data, reviews_data) :
        keys \in SUBSET {"summary_metrics", "insights_data", "reviews_data"},
        summary_metrics \in {<<>>, <<Metric(KeyTotalReviews, IntValue(6))>>},
        insights_data \in {EmptyFrame, SampleInsights},
        reviews_data \in {EmptyFrame, SampleReviews}}

\* A key that is absent has no value.
WellFormed(p) ==
    /\ "summary_metrics" \notin p.keys => p.summary_metrics = <<>>
    /\ "insights_data" \notin p.keys => p.insights_data = EmptyFrame
    /\ "reviews_data" \notin p.keys => p.reviews_data = EmptyFrame

Filenames == {"gmb_report.pdf", "gmb_data.xlsx"}

ReportIdle ==
    /\ export_data = NoPayload
    /\ pdf_story = <<>>
    /\ excel_file = NoFile
    /\ serializer_calls = {}

SentimentIdle ==
    /\ reviews_response = <<>>
    /\ reviews_df = EmptyFrame
    /\ sentiment_summary = NotCalled

NoRequest == [service |-> "None", api |-> <<>>, location_id |-> "", start_date |-> 0, end_date |-> 0]

NoResult == [raised |-> "not called", value |-> EmptyFrame]

InsightsIdle ==
    /\ insights_request = NoRequest
    /\ insights_result = NoResult

NoAuthCall == [method |-> "none"]

AuthIdle == auth_call = NoAuthCall

\* GMBAnalytics.__init__
NewGMBAnalytics == [service |-> "None", credentials |-> "None"]

\* The session state after lines 535-538 of the first run.
NewSession ==
    [authenticated |-> FALSE, demo_mode |-> FALSE, show_auth_code_input |-> FALSE,
     gmb_credentials |-> "None"]

NoWidgets == [button |-> "none", auth_code |-> "", selected_location |-> ""]

NothingDisplayed == <<>>

NothingFetched == [insights |-> <<>>, reviews |-> <<>>]

\* The locals of main before a run has bound them.
RunIdle ==
    /\ widgets = NoWidgets
    /\ locations = <<>>
    /\ loop_index = 0
    /\ total_insights = EmptyFrame
    /\ all_reviews = EmptyFrame
    /\ location_insights = EmptyFrame
    /\ location_reviews = EmptyFrame
    /\ displayed = NothingDisplayed
    /\ error = ""
    /\ calls = <<>>
    /\ fetched = NothingFetched

MainIdle ==
    /\ session = NewSession
    /\ gmb = NewGMBAnalytics
    /\ secrets = "complete"
    /\ cycle = 0
    /\ RunIdle

InitReport ==
    /\ pc = "export"
    /\ export_data \in {p \in Payloads \cup TablePayloads : WellFormed(p)}
    /\ pdf_story = <<>>
    /\ excel_file = NoFile
    /\ serializer_calls = {}
    /\ SentimentIdle
    /\ InsightsIdle
    /\ AuthIdle
    /\ MainIdle

\* pdf_buffer = create_pdf_report(export_data, filename)
CreatePdfReport ==
    /\ pc \in {"export", "exported"}
    /\ \E filename \in Filenames :
        /\ pdf_story' = create_pdf_report(export_data, filename)
        /\ serializer_calls' = serializer_calls \cup {<<"create_pdf_report", filename>>}
    /\ pc' = "exported"
    /\ UNCHANGED <<export_data, excel_file, outsideReport>>

\* excel_buffer = export_to_excel(export_data, filename)
ExportToExcel ==
    /\ pc \in {"export", "exported"}
    /\ \E filename \in Filenames :
        /\ excel_file' = export_to_excel(export_data, filename)
        /\ serializer_calls' = serializer_calls \cup {<<"export_to_excel", filename>>}
    /\ UNCHANGED <<pc, export_data, pdf_story, outsideReport>>

NextReport == CreatePdfReport \/ ExportToExcel

SpecReport == InitReport /\ [][NextReport]_vars

(***************************************************************************)
(* The review pipeline: get_reviews, then main's classification of the     *)
(* rows, then generate_sentiment_summary.                                  *)
(***************************************************************************)
InitSentiment ==
    /\ pc = "fetch"
    /\ reviews_response \in Responses
    /\ reviews_df = EmptyFrame
    /\ sentiment_summary = NotCalled
    /\ ReportIdle
    /\ InsightsIdle
    /\ AuthIdle
    /\ MainIdle

\* get_reviews with a service and a response (lines 370-383).
GetReviews ==
    /\ pc = "fetch"
    /\ reviews_df' = ReviewsFrame(reviews_response)
    /\ pc' = "fetched"
    /\ UNCHANGED <<reviews_response, sentiment_summary, outsideSentiment>>

\* main: if not reviews.empty: reviews['sentiment'] = ...apply(analyze_sentiment)
ClassifyReviews ==
    /\ pc = "fetched"
    /\ ~IsEmpty(reviews_df)
    /\ reviews_df' = ApplySentiment(reviews_df)
    /\ pc' = "classified"
    /\ UNCHANGED <<reviews_response, sentiment_summary, outsideSentiment>>

\* A call of generate_sentiment_summary: main's, on the classified rows, or a
\* caller's on the frame of a response without reviews.
Summarize ==
    /\ pc = "classified" \/ (pc = "fetched" /\ IsEmpty(reviews_df))
    /\ \E keywords \in KeywordsFor(reviews_df) :
           sentiment_summary' = generate_sentiment_summary(reviews_df, keywords)
    /\ pc' = "summarized"
    /\ UNCHANGED <<reviews_response, reviews_df, outsideSentiment>>

NextSentiment == GetReviews \/ ClassifyReviews \/ Summarize

SpecSentiment == InitSentiment /\ [][NextSentiment]_vars

(***************************************************************************)
(* Properties of the review pipeline                                       *)
(***************************************************************************)
Classified == pc \in {"classified", "summarized"} /\ "sentiment" \in reviews_df.columns

\* generate_sentiment_summary was called on classified reviews and returned.
Summarized == pc = "summarized" /\ Classified /\ sentiment_summary.raised = ""

Entries == Range(sentiment_summary.value)

Rows == reviews_df.rows

\* The positions of the reviews of a sentiment in the batch.
RowsOf(label) == {i \in DOMAIN Rows : Rows[i].sentiment = label}

RECURSIVE SumOfRatings(_)
SumOfRatings(idx) ==
    IF idx = {} THEN 0
    ELSE LET i == CHOOSE j \in idx : TRUE
         IN  Rows[i].rating + SumOfRatings(idx \ {i})

RECURSIVE SumOfCounts(_)
SumOfCounts(entries) ==
    IF entries = <<>> THEN 0 ELSE Head(entries).count + SumOfCounts(Tail(entries))

MinRating(idx) == CHOOSE x \in {Rows[i].rating : i \in idx} : \A i \in idx : x <= Rows[i].rating

MaxRating(idx) == CHOOSE x \in {Rows[i].rating : i \in idx} : \A i \in idx : x >= Rows[i].rating

\* The distinct case-folded words of more than 3 letters in one text.
LongWordsOf(text) ==
    {text[j].w : j \in {k \in DOMAIN text : text[k].w \notin Punctuation /\ Len(text[k].w) > 3}}

\* Those of all the reviews of a sentiment.
QualifyingTokens(label) == UNION {LongWordsOf(Rows[i].text) : i \in RowsOf(label)}

\* C1: analyze_sentiment gives every text exactly one label: Positive when the
\* polarity is strictly above 0.1, Negative when it is strictly below -0.1, and
\* Neutral otherwise; the scores 0.1 and -0.1 and the empty text are Neutral.
C1_ClassifierThresholds ==
    Classified =>
        \A i \in DOMAIN Rows :
            LET p == Polarity(Rows[i].text)
                l == Rows[i].sentiment
            IN  /\ l \in Labels
                /\ (l = "Positive") <=> (p > 10)
                /\ (l = "Negative") <=> (p < -10)
                /\ (l = "Neutral") <=> (p >= -10 /\ p <= 10)
                /\ Rows[i].text = TextEmpty => l = "Neutral"

C1_Witness ==
    /\ Classified
    /\ \E i, j, k \in DOMAIN Rows :
        /\ Polarity(Rows[i].text) = 10 /\ Rows[i].sentiment = "Neutral"
        /\ Polarity(Rows[j].text) = -10 /\ Rows[j].sentiment = "Neutral"
        /\ Rows[k].text = TextEmpty /\ Rows[k].sentiment = "Neutral"

\* C2: the counts of the entries generate_sentiment_summary emits sum to the
\* number of reviews in the batch.
C2_CountsSumToBatch ==
    Summarized => SumOfCounts(sentiment_summary.value) = Len(Rows)

C2_Witness ==
    /\ Summarized
    /\ Len(Rows) = 3
    /\ Len(sentiment_summary.value) = 2

\* C3: a label is a key of the summary exactly when some review of the batch
\* has that sentiment; an absent label is left out, never emitted with count 0.
C3_LabelIffReviews ==
    Summarized =>
        /\ \A s \in Labels : (\E e \in Entries : e.label = s) <=> (RowsOf(s) # {})
        /\ \A e \in Entries : e.label \in Labels /\ e.count >= 1
        /\ \A a, b \in DOMAIN sentiment_summary.value :
               sentiment_summary.value[a].label = sentiment_summary.value[b].label => a = b

C3_Witness ==
    /\ Summarized
    /\ Len(Rows) = 3
    /\ RowsOf("Negative") = {}
    /\ {e.label : e \in Entries} = {"Positive", "Neutral"}

\* C4: summarizing an empty batch returns an empty mapping: the call does not
\* fail and emits no label.
C4_EmptyBatchEmptyMapping ==
    (pc = "summarized" /\ Rows = <<>>) =>
        sentiment_summary = [raised |-> "", value |-> <<>>]

\* C5: the average rating of every emitted label is the arithmetic mean of the
\* ratings of that label's reviews, and so lies between their minimum and
\* their maximum.
C5_MeanWithinMinMax ==
    Summarized =>
        \A e \in Entries :
            LET idx == RowsOf(e.label)
                avg == e.avg_rating
            IN  /\ avg.den = Cardinality(idx)
                /\ avg.den > 0
                /\ avg.num = SumOfRatings(idx)
                /\ avg.den * MinRating(idx) <= avg.num
                /\ avg.num <= avg.den * MaxRating(idx)

C5_Witness ==
    /\ Summarized
    /\ \E e \in Entries :
        LET idx == RowsOf(e.label)
        IN  /\ e.count >= 2
            /\ e.avg_rating.den * MinRating(idx) < e.avg_rating.num
            /\ e.avg_rating.num < e.avg_rating.den * MaxRating(idx)

\* C6: every summary the pipeline get_reviews -> classify -> summarize
\* produces has its average rating in [1, 5], also when a review of the
\* response carries no star rating.
C6_AverageRatingInRange ==
    Summarized =>
        \A e \in Entries :
            /\ 1 * e.avg_rating.den <= e.avg_rating.num
            /\ e.avg_rating.num <= 5 * e.avg_rating.den

\* The first position of a word in a list of words.
FirstAt(words, w) == CHOOSE i \in DOMAIN words : words[i] = w /\ \A j \in 1..(i - 1) : words[j] # w

\* The distinct words by descending count, equal counts by first occurrence,
\* the first k of them.
RECURSIVE FirstOccurrenceRank(_, _, _)
FirstOccurrenceRank(remaining, words, k) ==
    IF k = 0 \/ remaining = {} THEN <<>>
    ELSE LET w == CHOOSE x \in remaining :
                    \A y \in remaining \ {x} :
                        \/ Count(words, x) > Count(words, y)
                        \/ Count(words, x) = Count(words, y)
                           /\ FirstAt(words, x) < FirstAt(words, y)
         IN  <<w>> \o FirstOccurrenceRank(remaining \ {w}, words, k - 1)

\* The case-folded words of more than 3 letters of a sentiment's reviews, in
\* the order of the batch.
RECURSIVE LongWordsInOrder(_, _)
LongWordsInOrder(label, i) ==
    IF i > Len(Rows) THEN <<>>
    ELSE (IF Rows[i].sentiment = label
          THEN LET t == Rows[i].text
                   keep == SelectSeq(t, LAMBDA x : x.w \notin Punctuation /\ Len(x.w) > 3)
               IN  [j \in 1..Len(keep) |-> keep[j].w]
          ELSE <<>>) \o LongWordsInOrder(label, i + 1)

\* C7: the keywords of every emitted label are the case-folded words of more
\* than 3 letters of that label's reviews, by descending frequency, ties by
\* first occurrence in the concatenated text, the top 5.
C7_KeywordsRanked ==
    Summarized =>
        \A e \in Entries :
            LET words == LongWordsInOrder(e.label, 1)
            IN  e.keywords = FirstOccurrenceRank(Range(words), words, 5)

\* C8: the keyword list of every emitted label has no duplicates, at most 5
\* words, and at most as many words as the label's reviews have distinct
\* qualifying tokens.
C8_KeywordsBounded ==
    Summarized =>
        \A e \in Entries :
            /\ \A a, b \in DOMAIN e.keywords : e.keywords[a] = e.keywords[b] => a = b
            /\ Len(e.keywords) <= 5
            /\ Len(e.keywords) <= Cardinality(QualifyingTokens(e.label))
            /\ Range(e.keywords) \subseteq QualifyingTokens(e.label)

C8_Witness ==
    /\ Summarized
    /\ \E e \in Entries :
        /\ Len(e.keywords) = 5
        /\ Cardinality(QualifyingTokens(e.label)) > 5

\* C9: the sample review of every emitted label is the text of the first
\* review of the batch, in its input order, that has that sentiment.
C9_SampleIsFirst ==
    Summarized =>
        \A e \in Entries :
            \E i \in DOMAIN Rows :
                /\ Rows[i].sentiment = e.label
                /\ \A j \in 1..(i - 1) : Rows[j].sentiment # e.label
                /\ e.sample_review = Rows[i].text

C9_Witness ==
    /\ Summarized
    /\ \E e \in Entries :
        \E i, j \in RowsOf(e.label) :
            /\ i < j
            /\ \A h \in 1..(i - 1) : Rows[h].sentiment # e.label
            /\ Rows[i].text # Rows[j].text
            /\ Rows[1].sentiment # e.label
            /\ e.sample_review = Rows[i].text

(***************************************************************************)
(* Properties of the report serializer                                     *)
(***************************************************************************)
Exported == pc = "exported"

\* The rows of the tables of the document, header rows left out.
TableRows ==
    LET tables == SelectSeq(pdf_story, LAMBDA f : f.kind = "Table")
    IN  IF Len(tables) = 1 THEN Tail(tables[1].rows) ELSE <<>>

IsLetter(c) == IsLower(c) \/ IsUpper(c)

\* Character by character: out is key with every underscore a blank, every
\* letter that starts a word a capital and every other letter lower case.
IsTitleCased(out, key) ==
    /\ Len(out) = Len(key)
    /\ \A j \in DOMAIN key :
        LET c == key[j]
            continues == j > 1 /\ IsLetter(key[j - 1])
        IN  IF c = "_" THEN out[j] = " "
            ELSE IF ~IsLetter(c) THEN out[j] = c
            ELSE IF continues THEN IsLower(out[j]) /\ out[j] = ToLower(c)
            ELSE IsUpper(out[j]) /\ out[j] = ToUpper(c)

DigitOf(c) == (CHOOSE i \in DOMAIN DigitChars : DigitChars[i] = c) - 1

RECURSIVE ParseNat(_)
ParseNat(str) ==
    IF Len(str) = 1 THEN DigitOf(str[1])
    ELSE 10 * ParseNat(SubSeq(str, 1, Len(str) - 1)) + DigitOf(str[Len(str)])

\* The number a rendered cell denotes.
ParseValue(str) ==
    IF \E i \in DOMAIN str : str[i] = "."
    THEN LET dot  == CHOOSE i \in DOMAIN str : str[i] = "."
             frac == SubSeq(str, dot + 1, Len(str))
         IN  FloatValue(100 * ParseNat(SubSeq(str, 1, dot - 1))
                        + (IF Len(frac) = 1 THEN 10 * ParseNat(frac) ELSE ParseNat(frac)))
    ELSE IntValue(ParseNat(str))

ExampleMetrics ==
    <<Metric(KeyTotalReviews, IntValue(6)), Metric(KeyAverageRating, FloatValue(333))>>

ExampleRows ==
    << <<<<"T", "o", "t", "a", "l", " ", "R", "e", "v", "i", "e", "w", "s">>, <<"6">>>>,
       <<<<"A", "v", "e", "r", "a", "g", "e", " ", "R", "a", "t", "i", "n", "g">>,
         <<"3", ".", "3", "3">>>> >>

\* C10: create_pdf_report emits one metrics-table row per entry of
\* summary_metrics, in the order of the mapping, each row the key with
\* underscores replaced by blanks and title-cased and the value as a string;
\* {total_reviews: 6, average_rating: 3.33} gives [Total Reviews, 6],
\* [Average Rating, 3.33] in that order.
C10_MetricRows ==
    (Exported /\ "summary_metrics" \in export_data.keys) =>
        LET metrics == export_data.summary_metrics
        IN  /\ Len(SelectSeq(pdf_story, LAMBDA f : f.kind = "Table")) = 1
            /\ Len(TableRows) = Len(metrics)
            /\ \A i \in DOMAIN metrics :
                /\ Len(TableRows[i]) = 2
                /\ IsTitleCased(TableRows[i][1], metrics[i].key)
                /\ ParseValue(TableRows[i][2]) = metrics[i].value
            /\ metrics = ExampleMetrics => TableRows = ExampleRows

C10_Witness ==
    /\ Exported
    /\ "summary_metrics" \in export_data.keys
    /\ export_data.summary_metrics = ExampleMetrics
    /\ TableRows = ExampleRows

(***************************************************************************)
(* Claims about export_to_excel and about the two serializers together     *)
(***************************************************************************)
Sections == {"summary_metrics", "insights_data", "reviews_data"}

SheetFor(section) ==
    CASE section = "summary_metrics" -> "Summary"
      [] section = "insights_data"   -> "Insights"
      [] section = "reviews_data"    -> "Reviews"

ExcelCalled == excel_file # NoFile

SheetNames == {excel_file.sheets[i].name : i \in 1..Len(excel_file.sheets)}

\* C11: export_to_excel writes the sheet Summary, Insights or Reviews exactly
\* when the corresponding key is in the payload, each once and no other
\* sheet; a payload with only summary_metrics gives solely the Summary sheet.
C11_SheetsIffSections ==
    ExcelCalled =>
        /\ SheetNames = {SheetFor(section) : section \in export_data.keys \cap Sections}
        /\ Len(excel_file.sheets) = Cardinality(SheetNames)
        /\ export_data.keys \cap Sections = {"summary_metrics"} =>
               /\ excel_file.raised = ""
               /\ Len(excel_file.sheets) = 1
               /\ excel_file.sheets[1] = SummarySheet(export_data.summary_metrics)

C11_Witness ==
    /\ ExcelCalled
    /\ export_data.keys \cap Sections = {"summary_metrics"}
    /\ export_data.summary_metrics # <<>>
    /\ SheetNames = {"Summary"}

Tables == {i \in 1..Len(pdf_story) : pdf_story[i].kind = "Table"}

\* C13: create_pdf_report on a payload whose summary_metrics is the empty
\* mapping builds the whole document, with one metrics table that has the
\* header row and zero data rows.
C13_EmptyMetricsTable ==
    (Exported /\ "summary_metrics" \in export_data.keys
              /\ export_data.summary_metrics = <<>>) =>
        /\ Cardinality(Tables) = 1
        /\ \A i \in Tables : pdf_story[i].rows = <<HeaderRow>>
        /\ pdf_story[1] = Paragraph(<<"Google My Business Analytics Report">>)
        /\ pdf_story[Len(pdf_story)].kind = "Table"

C13_Witness ==
    /\ Exported
    /\ "summary_metrics" \in export_data.keys
    /\ export_data.summary_metrics = <<>>
    /\ Cardinality(Tables) = 1

PdfCalled == pdf_story # <<>>

MaxDay == 3

Returned(frame) == [raised |-> "", value |-> frame]

Raised(exception) == [raised |-> exception, value |-> EmptyFrame]

InsightsColumns ==
    {"date", "search_impressions", "map_impressions", "website_clicks",
     "direction_requests", "phone_calls", "photo_views", "location_id"}

MetricColumns ==
    {"search_impressions", "map_impressions", "website_clicks",
     "direction_requests", "phone_calls", "photo_views"}

\* days = (end_date - start_date).days + 1
Days(start_date, end_date) == end_date - start_date + 1

\* len(range(days)), len([0] * days)
RangeLen(days) == IF days > 0 THEN days ELSE 0

InsightsRow(date, figures, location_id) ==
    [date               |-> date,
     search_impressions |-> figures["search_impressions"],
     map_impressions    |-> figures["map_impressions"],
     website_clicks     |-> figures["website_clicks"],
     direction_requests |-> figures["direction_requests"],
     phone_calls        |-> figures["phone_calls"],
     photo_views        |-> figures["photo_views"],
     location_id        |-> location_id]

\* np.random.randint(low, high, days) draws from low..high-1; of each range
\* the model draws the two ends, for all six columns of a day together.
DemoLow ==
    [column \in MetricColumns |->
        CASE column = "search_impressions" -> 50
          [] column = "map_impressions"    -> 30
          [] column = "website_clicks"     -> 5
          [] column = "direction_requests" -> 10
          [] column = "phone_calls"        -> 2
          [] column = "photo_views"        -> 20]

DemoHigh ==
    [column \in MetricColumns |->
        CASE column = "search_impressions" -> 200
          [] column = "map_impressions"    -> 150
          [] column = "website_clicks"     -> 50
          [] column = "direction_requests" -> 80
          [] column = "phone_calls"        -> 25
          [] column = "photo_views"        -> 100]

DemoDraws == {DemoLow, [column \in MetricColumns |-> DemoHigh[column] - 1]}

\* np.random.randint(low, high, days) raises ValueError for a negative days.
_get_demo_insights(location_id, start_date, end_date) ==
    LET days == Days(start_date, end_date)
    IN  IF days < 0
        THEN {Raised("ValueError")}
        ELSE {Returned([columns |-> InsightsColumns,
                        rows    |-> [i \in 1..days |->
                                        InsightsRow(start_date + i - 1, draws[i], location_id)]]) :
                 draws \in [1..days -> DemoDraws]}

\* A daily value of the response: the dict's 'value' (a string), if it has one.
DailyValue(value) == [keys |-> {"value"}, value |-> value]

NoValue == [keys |-> {}, value |-> <<>>]

IsDigits(str) == str # <<>> /\ \A i \in DOMAIN str : \E d \in DOMAIN DigitChars : DigitChars[d] = str[i]

\* int(daily_value.get('value', 0))
IntOfValue(daily_value) ==
    IF "value" \notin daily_value.keys THEN [raised |-> "", n |-> 0]
    ELSE IF IsDigits(daily_value.value) THEN [raised |-> "", n |-> ParseNat(daily_value.value)]
    ELSE [raised |-> "ValueError", n |-> 0]

\* The column a metric is written to, "" for a metric no branch names.
ColumnOf(metric_name) ==
    CASE metric_name \in {"VIEWS_SEARCH", "QUERIES_DIRECT", "QUERIES_INDIRECT"} -> "search_impressions"
      [] metric_name = "VIEWS_MAPS" -> "map_impressions"
      [] metric_name = "ACTIONS_WEBSITE" -> "website_clicks"
      [] metric_name = "ACTIONS_DRIVING_DIRECTIONS" -> "direction_requests"
      [] metric_name = "ACTIONS_PHONE" -> "phone_calls"
      [] metric_name \in {"PHOTOS_VIEWS_MERCHANT", "PHOTOS_VIEWS_CUSTOMERS"} -> "photo_views"
      [] OTHER -> ""

AccumulatesNever(metric_name) == FALSE

\* += for the search and photo metrics, = for the others.
Accumulates(metric_name) ==
    metric_name \in {"VIEWS_SEARCH", "QUERIES_DIRECT", "QUERIES_INDIRECT",
                     "PHOTOS_VIEWS_MERCHANT", "PHOTOS_VIEWS_CUSTOMERS"}

\* daily_values[:days]
SliceTo(daily_values, days) ==
    LET n == IF days >= 0
             THEN (IF days < Len(daily_values) THEN days ELSE Len(daily_values))
             ELSE (IF Len(daily_values) + days > 0 THEN Len(daily_values) + days ELSE 0)
    IN  SubSeq(daily_values, 1, n)

\* The inner loop from its i-th step on: data after it, or the exception.
RECURSIVE ProcessDaily(_, _, _, _)
ProcessDaily(data, metric_name, daily_values, i) ==
    IF i > Len(daily_values) THEN [raised |-> "", data |-> data]
    ELSE LET value  == IntOfValue(daily_values[i])
             column == ColumnOf(metric_name)
         IN  IF value.raised # "" THEN [raised |-> value.raised, data |-> data]
             ELSE IF column = "" THEN ProcessDaily(data, metric_name, daily_values, i + 1)
             ELSE IF i > Len(data[column]) THEN [raised |-> "IndexError", data |-> data]
             ELSE ProcessDaily(
                      [data EXCEPT ![column][i] =
                          IF Accumulates(metric_name) THEN @ + value.n ELSE value.n],
                      metric_name, daily_values, i + 1)

\* The outer loop from its k-th metric on.
RECURSIVE ProcessMetrics(_, _, _, _)
ProcessMetrics(data, metrics, days, k) ==
    IF k > Len(metrics) THEN [raised |-> "", data |-> data]
    ELSE LET done == ProcessDaily(data, metrics[k].metric,
                                  SliceTo(metrics[k].dimensionalValues, days), 1)
         IN  IF done.raised # "" THEN done
             ELSE ProcessMetrics(done.data, metrics, days, k + 1)

\* The try block of _process_insights_response after the emptiness test.
ProcessedFrame(response, location_id, start_date, end_date) ==
    LET metrics == response.locationMetrics[1].metricValues
        days    == Days(start_date, end_date)
        zeros   == [column \in MetricColumns |-> [i \in 1..RangeLen(days) |-> 0]]
        done    == ProcessMetrics(zeros, metrics, days, 1)
    IN  IF done.raised # "" THEN Raised(done.raised)
        ELSE Returned([columns |-> InsightsColumns,
                       rows    |-> [i \in 1..RangeLen(days) |->
                                       InsightsRow(start_date + i - 1,
                                                   [column \in MetricColumns |-> done.data[column][i]],
                                                   location_id)]])

\* What is raised inside the try block is caught, and the handler returns
\* the demo frame; what the handler raises leaves the function.
_process_insights_response(response, location_id, start_date, end_date) ==
    LET attempt == IF response.locationMetrics = <<>>
                   THEN _get_demo_insights(location_id, start_date, end_date)
                   ELSE {ProcessedFrame(response, location_id, start_date, end_date)}
    IN  UNION {IF outcome.raised = "" THEN {outcome}
               ELSE _get_demo_insights(location_id, start_date, end_date) :
                  outcome \in attempt}

\* api is what .execute() does: raise, or return a response.
get_insights(service, api, location_id, start_date, end_date) ==
    LET attempt == IF service = "None"
                   THEN _get_demo_insights(location_id, start_date, end_date)
                   ELSE IF api.raised # "" THEN {Raised(api.raised)}
                   ELSE _process_insights_response(api.response, location_id,
                                                   start_date, end_date)
    IN  UNION {IF outcome.raised = "" THEN {outcome}
               ELSE _get_demo_insights(location_id, start_date, end_date) :
                  outcome \in attempt}

\* Responses of the API.
InsightsMetric(metric, dimensionalValues) ==
    [metric |-> metric, dimensionalValues |-> dimensionalValues]

InsightsResponse(metricValues) == [locationMetrics |-> <<[metricValues |-> metricValues]>>]

EmptyResponse == [locationMetrics |-> <<>>]

ApiError == [raised |-> "HttpError", response |-> EmptyResponse]

ApiReturns(response) == [raised |-> "", response |-> response]

MetricNames ==
    {"VIEWS_SEARCH", "QUERIES_DIRECT", "QUERIES_INDIRECT", "VIEWS_MAPS",
     "ACTIONS_WEBSITE", "ACTIONS_DRIVING_DIRECTIONS", "ACTIONS_PHONE",
     "PHOTOS_VIEWS_MERCHANT", "PHOTOS_VIEWS_CUSTOMERS", "UNKNOWN_METRIC"}

\* Daily values: none, fewer than the window, with a day without value, one
\* more than the longest window, and one that is no number.
DailyValueSeqs ==
    {<<>>,
     <<DailyValue(<<"3">>)>>,
     <<DailyValue(<<"1", "2">>), NoValue>>,
     [i \in 1..(MaxDay + 1) |-> DailyValue(<<"7">>)],
     <<DailyValue(<<"n", "a">>)>>}

InsightsMetrics ==
    {InsightsMetric(metric, values) : metric \in MetricNames, values \in DailyValueSeqs}

InsightsResponses ==
    {EmptyResponse} \cup {InsightsResponse(metrics) : metrics \in SeqsUpTo(InsightsMetrics, 2)}

InsightsRequest(service, api, location_id, start_date, end_date) ==
    [service |-> service, api |-> api, location_id |-> location_id,
     start_date |-> start_date, end_date |-> end_date]

InsightsRequests ==
    {InsightsRequest("None", ApiError, "loc_1", start_date, end_date) :
        start_date \in 1..MaxDay, end_date \in 1..MaxDay}
    \cup
    {InsightsRequest("service", api, "loc_1", start_date, end_date) :
        api \in {ApiError} \cup {ApiReturns(response) : response \in InsightsResponses},
        start_date \in 1..MaxDay, end_date \in 1..MaxDay}

InitInsights ==
    /\ pc = "insights"
    /\ insights_request \in InsightsRequests
    /\ insights_result = NoResult
    /\ SentimentIdle
    /\ ReportIdle
    /\ MainIdle
    /\ AuthIdle

\* insights = analytics.get_insights(location_id, start_date, end_date)
GetInsights ==
    /\ pc = "insights"
    /\ insights_result' \in get_insights(insights_request.service, insights_request.api,
                                         insights_request.location_id,
                                         insights_request.start_date,
                                         insights_request.end_date)
    /\ pc' = "insights returned"
    /\ UNCHANGED <<insights_request, outsideInsights>>

NextInsights == GetInsights

SpecInsights == InitInsights /\ [][NextInsights]_vars

InsightsReturned == pc = "insights returned"

WindowDays == Days(insights_request.start_date, insights_request.end_date)

\* C20: for every start and end date and on every path, get_insights
\* returns a frame with one row per day of the inclusive window, zero rows
\* when the end precedes the start, and raises nothing.
C20_OneRowPerDay ==
    InsightsReturned =>
        /\ insights_result.raised = ""
        /\ Len(insights_result.value.rows) = RangeLen(WindowDays)

\* The metrics of the response processed, when there is one.
Processed ==
    /\ InsightsReturned
    /\ insights_request.service # "None"
    /\ insights_request.api.raised = ""
    /\ insights_request.api.response # EmptyResponse

ResponseMetrics == insights_request.api.response.locationMetrics[1].metricValues

\* The value metric k reports for day i of the window: 0 when it reports none.
DayValue(k, i) ==
    LET daily_values == ResponseMetrics[k].dimensionalValues
    IN  IF i <= Len(daily_values) /\ "value" \in daily_values[i].keys
        THEN ParseNat(daily_values[i].value)
        ELSE 0

\* The sum of the day-i values of the metrics from the k-th on that bear one
\* of the names.
RECURSIVE DaySum(_, _, _)
DaySum(names, i, k) ==
    IF k > Len(ResponseMetrics) THEN 0
    ELSE (IF ResponseMetrics[k].metric \in names THEN DayValue(k, i) ELSE 0)
         + DaySum(names, i, k + 1)

\* Every value inside the window is a number, and no metric that is assigned
\* rather than added is reported twice.
WellFormedResponse ==
    /\ \A k \in DOMAIN ResponseMetrics :
           \A i \in DOMAIN ResponseMetrics[k].dimensionalValues :
               (i <= WindowDays /\ "value" \in ResponseMetrics[k].dimensionalValues[i].keys)
                   => IsDigits(ResponseMetrics[k].dimensionalValues[i].value)
    /\ \A k, l \in DOMAIN ResponseMetrics :
           (k # l /\ ResponseMetrics[k].metric = ResponseMetrics[l].metric)
               => ResponseMetrics[k].metric \in
                     {"VIEWS_SEARCH", "QUERIES_DIRECT", "QUERIES_INDIRECT",
                      "PHOTOS_VIEWS_MERCHANT", "PHOTOS_VIEWS_CUSTOMERS", "UNKNOWN_METRIC"}

\* C24: for a non-empty response the frame has, for each day i of the
\* window, search_impressions = the sum of the day-i values of VIEWS_SEARCH,
\* QUERIES_DIRECT and QUERIES_INDIRECT, photo_views = the sum of those of
\* PHOTOS_VIEWS_MERCHANT and PHOTOS_VIEWS_CUSTOMERS, and map_impressions,
\* website_clicks, direction_requests and phone_calls = the day-i value of
\* VIEWS_MAPS, ACTIONS_WEBSITE, ACTIONS_DRIVING_DIRECTIONS and ACTIONS_PHONE;
\* a day without a reported value has 0 and values past the window are
\* ignored.
C24_DailyFigures ==
    (Processed /\ WindowDays >= 0 /\ WellFormedResponse) =>
        /\ insights_result.raised = ""
        /\ Len(insights_result.value.rows) = WindowDays
        /\ \A i \in 1..WindowDays :
               LET row == insights_result.value.rows[i]
               IN  /\ row.search_impressions =
                         DaySum({"VIEWS_SEARCH", "QUERIES_DIRECT", "QUERIES_INDIRECT"}, i, 1)
                   /\ row.photo_views =
                         DaySum({"PHOTOS_VIEWS_MERCHANT", "PHOTOS_VIEWS_CUSTOMERS"}, i, 1)
                   /\ row.map_impressions = DaySum({"VIEWS_MAPS"}, i, 1)
                   /\ row.website_clicks = DaySum({"ACTIONS_WEBSITE"}, i, 1)
                   /\ row.direction_requests = DaySum({"ACTIONS_DRIVING_DIRECTIONS"}, i, 1)
                   /\ row.phone_calls = DaySum({"ACTIONS_PHONE"}, i, 1)

\* Two search metrics added up on the first day, the second day reported by
\* one of them only and without a value, and a series longer than the window.
C24_Witness ==
    /\ Processed
    /\ WellFormedResponse
    /\ WindowDays = 2
    /\ Len(ResponseMetrics) = 2
    /\ ResponseMetrics[1].metric = "VIEWS_SEARCH"
    /\ ResponseMetrics[2].metric = "QUERIES_INDIRECT"
    /\ Len(ResponseMetrics[1].dimensionalValues) > WindowDays
    /\ ResponseMetrics[2].dimensionalValues = <<DailyValue(<<"1", "2">>), NoValue>>
    /\ insights_result.value.rows[1].search_impressions = 19
    /\ insights_result.value.rows[2].search_impressions = 7

(***************************************************************************)
(* main: one run of the script per user interaction                        *)
(*                                                                         *)
(* st.rerun() starts a new run for the same interaction, with no button    *)
(* pressed.  The locals of a run do not outlive it.                        *)
(***************************************************************************)
MaxCycles == 3

(***************************************************************************)
(* Authentication                                                          *)
(***************************************************************************)
\* st.secrets: "none" has no [oauth2] client, "no redirect_uri" has the client
\* only, "complete" has the redirect_uri too.
SecretsChoices == {"none", "no redirect_uri", "complete"}

\* oauth_configured (lines 570-577)
OAuthConfigured(configured) == configured # "none"

\* get_oauth_flow: None when a secret it reads is missing.
get_oauth_flow(configured) == IF configured = "complete" THEN "flow" ELSE "None"

\* get_auth_url
get_auth_url(configured) ==
    IF get_oauth_flow(configured) # "None" THEN "auth_url" ELSE "None"

Call(name, argument) == [call |-> name, argument |-> argument]

AuthOutcome(result, self, session_state, issued) ==
    [result |-> result, self |-> self, session_state |-> session_state, issued |-> issued]

authenticate_with_code_lenient(self, session_state, configured, auth_code, exchange, build_outcome) ==
    AuthOutcome(get_oauth_flow(configured) # "None", self, session_state,
                <<Call("fetch_token", auth_code)>>)

\* exchange is what flow.fetch_token does and build_outcome what build does:
\* "ok", or the exception raised.
authenticate_with_code(self, session_state, configured, auth_code, exchange, build_outcome) ==
    IF get_oauth_flow(configured) = "None"
    THEN AuthOutcome(FALSE, self, session_state, <<>>)
    ELSE IF exchange # "ok"
    THEN AuthOutcome(FALSE, self, session_state, <<Call("fetch_token", auth_code)>>)
    ELSE IF build_outcome # "ok"
    THEN AuthOutcome(FALSE, [self EXCEPT !.credentials = "credentials"], session_state,
                     <<Call("fetch_token", auth_code)>>)
    ELSE AuthOutcome(TRUE,
                     [service |-> "service", credentials |-> "credentials"],
                     [session_state EXCEPT !.gmb_credentials = "token"],
                     <<Call("fetch_token", auth_code)>>)

\* st.session_state['gmb_credentials'] is "None" when the key is absent, else
\* the token stored.  stored is what the stored credentials are: "valid",
\* "refreshable" (expired, the refresh succeeds) or "revoked" (expired, the
\* refresh raises).
StoredChoices == {"valid", "refreshable", "revoked"}

RefreshCalls(stored) ==
    IF stored \in {"refreshable", "revoked"} THEN <<Call("refresh", "")>> ELSE <<>>

load_credentials_from_session_keeping(self, session_state, stored, build_outcome) ==
    IF session_state.gmb_credentials = "None"
    THEN AuthOutcome(FALSE, self, session_state, <<>>)
    ELSE IF stored = "revoked" \/ build_outcome # "ok"
    THEN AuthOutcome(FALSE, [self EXCEPT !.credentials = "credentials"], session_state,
                     RefreshCalls(stored))
    ELSE AuthOutcome(TRUE,
                     [service |-> "service", credentials |-> "credentials"],
                     IF stored = "refreshable"
                     THEN [session_state EXCEPT !.gmb_credentials = "refreshed token"]
                     ELSE session_state,
                     RefreshCalls(stored))

\* What is raised is caught; the handler deletes the stored credentials.
load_credentials_from_session(self, session_state, stored, build_outcome) ==
    IF session_state.gmb_credentials = "None"
    THEN AuthOutcome(FALSE, self, session_state, <<>>)
    ELSE IF stored = "revoked" \/ build_outcome # "ok"
    THEN AuthOutcome(FALSE, [self EXCEPT !.credentials = "credentials"],
                     [session_state EXCEPT !.gmb_credentials = "None"],
                     RefreshCalls(stored))
    ELSE AuthOutcome(TRUE,
                     [service |-> "service", credentials |-> "credentials"],
                     IF stored = "refreshable"
                     THEN [session_state EXCEPT !.gmb_credentials = "refreshed token"]
                     ELSE session_state,
                     RefreshCalls(stored))

(***************************************************************************)
(* get_accounts, get_locations                                             *)
(***************************************************************************)
Location(id, name, brand) == [id |-> id, name |-> name, brand |-> brand]

\* The fields of a location main reads; address and phone are left out.
_get_demo_locations ==
    <<Location("loc_1", "Downtown Store", "Brand A"),
      Location("loc_2", "Mall Location", "Brand A"),
      Location("loc_3", "Airport Store", "Brand B"),
      Location("loc_4", "Suburb Branch", "Brand B")>>

\* What the API lists: accounts().list() raises or returns accounts, and for
\* each account locations().list() raises or returns locations.
Account(keys, name, accountName, raised, listed) ==
    [keys |-> keys, name |-> name, accountName |-> accountName,
     raised |-> raised, locations |-> listed]

Listing(raised, accounts) == [raised |-> raised, accounts |-> accounts]

\* accounts.get('accounts', []), [] when there is no service or the call raises
get_accounts(self, listing) ==
    IF self.service = "None" THEN <<>>
    ELSE IF listing.raised # "" THEN <<>>
    ELSE listing.accounts

AccountsCalls(self) ==
    IF self.service = "None" THEN <<>> ELSE <<Call("accounts.list", "")>>

\* The locations of one account; none when its call raised.
LocationsOfAccount(account) ==
    IF account.raised # "" THEN <<>>
    ELSE [i \in 1..Len(account.locations) |->
             Location(account.locations[i].name, account.locations[i].title,
                      account.accountName)]

RECURSIVE AllLocations(_)
AllLocations(accounts) ==
    IF accounts = <<>> THEN <<>>
    ELSE LocationsOfAccount(Head(accounts)) \o AllLocations(Tail(accounts))

\* account['name'] of an account without that key raises KeyError, and the
\* outer handler returns the demo locations.
get_locations(self, listing) ==
    IF self.service = "None" THEN <<>>
    ELSE LET accounts == get_accounts(self, listing)
         IN  IF \E i \in DOMAIN accounts : "name" \notin accounts[i].keys
             THEN _get_demo_locations
             ELSE AllLocations(accounts)

RECURSIVE LocationsCalls(_)
LocationsCalls(accounts) ==
    IF accounts = <<>> \/ "name" \notin Head(accounts).keys THEN <<>>
    ELSE <<Call("locations.list", Head(accounts).name)>> \o LocationsCalls(Tail(accounts))

(***************************************************************************)
(* get_reviews, _get_demo_reviews                                          *)
(***************************************************************************)
\* "Excellent service! The staff was very helpful and friendly. Will definitely come back."
DemoText1 ==
    <<Tok("excellent", TRUE), Tok("service", FALSE), Tok("!", FALSE), Tok("the", TRUE),
      Tok("staff", FALSE), Tok("was", FALSE), Tok("very", FALSE),
      Tok("helpful", FALSE), Tok("and", FALSE), Tok("friendly", FALSE),
      Tok(".", FALSE), Tok("will", TRUE), Tok("definitely", FALSE), Tok("come", FALSE),
      Tok("back", FALSE), Tok(".", FALSE)>>

\* "Good experience overall. The product quality is great but the wait time was a bit long."
DemoText2 ==
    <<Tok("good", TRUE), Tok("experience", FALSE), Tok("overall", FALSE),
      Tok(".", FALSE), Tok("the", TRUE), Tok("product", FALSE), Tok("quality", FALSE),
      Tok("is", FALSE), Tok("great", FALSE), Tok("but", FALSE), Tok("the", FALSE),
      Tok("wait", FALSE), Tok("time", FALSE), Tok("was", FALSE), Tok("a", FALSE),
      Tok("bit", FALSE), Tok("long", FALSE), Tok(".", FALSE)>>

\* "Disappointing visit. The staff seemed uninterested and the place was messy."
DemoText3 ==
    <<Tok("disappointing", TRUE), Tok("visit", FALSE), Tok(".", FALSE),
      Tok("the", TRUE), Tok("staff", FALSE), Tok("seemed", FALSE),
      Tok("uninterested", FALSE), Tok("and", FALSE), Tok("the", FALSE),
      Tok("place", FALSE), Tok("was", FALSE), Tok("messy", FALSE), Tok(".", FALSE)>>

\* "Amazing! Best customer service I've experienced. Highly recommend this place."
DemoText4 ==
    <<Tok("amazing", TRUE), Tok("!", FALSE), Tok("best", TRUE), Tok("customer", FALSE),
      Tok("service", FALSE), Tok("i've", TRUE), Tok("experienced", FALSE),
      Tok(".", FALSE), Tok("highly", TRUE), Tok("recommend", FALSE),
      Tok("this", FALSE), Tok("place", FALSE), Tok(".", FALSE)>>

\* "It's okay, nothing special. Average service and products."
DemoText5 ==
    <<Tok("it's", TRUE), Tok("okay", FALSE), Tok(",", FALSE), Tok("nothing", FALSE),
      Tok("special", FALSE), Tok(".", FALSE), Tok("average", TRUE),
      Tok("service", FALSE), Tok("and", FALSE), Tok("products", FALSE),
      Tok(".", FALSE)>>

\* "Terrible experience. Rude staff and poor quality products. Won't be returning."
DemoText6 ==
    <<Tok("terrible", TRUE), Tok("experience", FALSE), Tok(".", FALSE),
      Tok("rude", TRUE), Tok("staff", FALSE), Tok("and", FALSE), Tok("poor", FALSE),
      Tok("quality", FALSE), Tok("products", FALSE), Tok(".", FALSE),
      Tok("won't", TRUE), Tok("be", FALSE), Tok("returning", FALSE), Tok(".", FALSE)>>

DemoReview(id, rating, text) ==
    [id |-> id, rating |-> rating, text |-> text, sentiment |-> NoSentiment]

_get_demo_reviews(location_id) ==
    [columns |-> {"id", "author", "rating", "text", "date"},
     rows    |-> <<DemoReview(1, 5, DemoText1), DemoReview(2, 4, DemoText2),
                   DemoReview(3, 2, DemoText3), DemoReview(4, 5, DemoText4),
                   DemoReview(5, 3, DemoText5), DemoReview(6, 1, DemoText6)>>]

\* api is what reviews().list().execute() does: raise, or return reviews.
ReviewsApi(raised, listed) == [raised |-> raised, reviews |-> listed]

get_reviews(self, api, location_id) ==
    IF self.service = "None" THEN _get_demo_reviews(location_id)
    ELSE IF api.raised # "" THEN _get_demo_reviews(location_id)
    ELSE ReviewsFrame(api.reviews)

\* The external calls a fetch issues.
InsightsCallsRetried(self, api, location_id) ==
    IF self.service = "None" THEN <<>>
    ELSE IF api.raised # ""
    THEN <<Call("getInsights", location_id), Call("getInsights", location_id)>>
    ELSE <<Call("getInsights", location_id)>>

InsightsCalls(self, api, location_id) ==
    IF self.service = "None" THEN <<>> ELSE <<Call("getInsights", location_id)>>

ReviewsCalls(self, api, location_id) ==
    IF self.service = "None" THEN <<>> ELSE <<Call("reviews.list", location_id)>>

(***************************************************************************)
(* Frames in main                                                          *)
(***************************************************************************)
\* df['location_name'] = location['name']; df['brand'] = location['brand']
WithLocation(df, location) ==
    [columns |-> df.columns \cup {"location_name", "brand"},
     rows    |-> [i \in 1..Len(df.rows) |->
                    [f \in DOMAIN df.rows[i] \cup {"location_name", "brand"} |->
                        IF f = "location_name" THEN location.name
                        ELSE IF f = "brand" THEN location.brand
                        ELSE df.rows[i][f]]]]

\* pd.concat([accumulator, df], ignore_index=True)
Concat(accumulator, df) ==
    [columns |-> accumulator.columns \cup df.columns,
     rows    |-> accumulator.rows \o df.rows]

StaleAccumulator ==
    [columns |-> {"date", "rating"},
     rows    |-> <<[date |-> 0, rating |-> 1, search_impressions |-> 1, map_impressions |-> 1,
                    website_clicks |-> 1, phone_calls |-> 1, text |-> TextEmpty,
                    sentiment |-> NoSentiment]>>]

\* pd.DataFrame() of lines 706-707
NewAccumulator == EmptyFrame

\* df[column].sum()
RECURSIVE SumColumn(_, _)
SumColumn(rows, column) ==
    IF rows = <<>> THEN 0 ELSE Head(rows)[column] + SumColumn(Tail(rows), column)

\* df['rating'].mean(), to two decimals, in hundredths.
MeanRating(df) == (100 * SumColumn(df.rows, "rating")) \div Len(df.rows)

KeyTotalSearchImpressions ==
    <<"t", "o", "t", "a", "l", "_", "s", "e", "a", "r", "c", "h", "_", "i", "m", "p",
      "r", "e", "s", "s", "i", "o", "n", "s">>

KeyTotalMapImpressions ==
    <<"t", "o", "t", "a", "l", "_", "m", "a", "p", "_", "i", "m", "p", "r", "e", "s",
      "s", "i", "o", "n", "s">>

KeyTotalWebsiteClicks ==
    <<"t", "o", "t", "a", "l", "_", "w", "e", "b", "s", "i", "t", "e", "_", "c", "l",
      "i", "c", "k", "s">>

KeyTotalPhoneCalls ==
    <<"t", "o", "t", "a", "l", "_", "p", "h", "o", "n", "e", "_", "c", "a", "l", "l",
      "s">>

\* 'summary_metrics' of lines 1040-1047 and 1064-1071: computed from
\* total_insights and all_reviews.
SummaryMetricsOf(insights_df, reviews_data) ==
    <<Metric(KeyTotalSearchImpressions,
             IF IsEmpty(insights_df) THEN IntValue(0)
             ELSE IntValue(SumColumn(insights_df.rows, "search_impressions"))),
      Metric(KeyTotalMapImpressions,
             IF IsEmpty(insights_df) THEN IntValue(0)
             ELSE IntValue(SumColumn(insights_df.rows, "map_impressions"))),
      Metric(KeyTotalWebsiteClicks,
             IF IsEmpty(insights_df) THEN IntValue(0)
             ELSE IntValue(SumColumn(insights_df.rows, "website_clicks"))),
      Metric(KeyTotalPhoneCalls,
             IF IsEmpty(insights_df) THEN IntValue(0)
             ELSE IntValue(SumColumn(insights_df.rows, "phone_calls"))),
      Metric(KeyAverageRating,
             IF IsEmpty(reviews_data) THEN IntValue(0)
             ELSE FloatValue(MeanRating(reviews_data))),
      Metric(KeyTotalReviews,
             IF IsEmpty(reviews_data) THEN IntValue(0)
             ELSE IntValue(Len(reviews_data.rows)))>>

\* The figures st.metric shows for the insights, by the key the export gives
\* them; the values are those computed, before formatting.
InsightsShown(insights_df) ==
    <<Metric(KeyTotalSearchImpressions,
             IntValue(SumColumn(insights_df.rows, "search_impressions"))),
      Metric(KeyTotalMapImpressions,
             IntValue(SumColumn(insights_df.rows, "map_impressions"))),
      Metric(KeyTotalWebsiteClicks,
             IntValue(SumColumn(insights_df.rows, "website_clicks"))),
      Metric(KeyTotalPhoneCalls,
             IntValue(SumColumn(insights_df.rows, "phone_calls")))>>

\* The figures st.metric shows for the reviews.
ReviewsShown(reviews_data) ==
    <<Metric(KeyAverageRating, FloatValue(MeanRating(reviews_data))),
      Metric(KeyTotalReviews, IntValue(Len(reviews_data.rows)))>>

\* The summary main renders: label, count, average rating and sample of each
\* sentiment.  The keywords are left out here: ranking tied words multiplies
\* the outcomes, and the ranking is checked on its own in SpecSentiment.
NoKeywords == [label \in Labels |-> <<>>]

\* The default dates give a window of 31 days; the model takes one of 1 day.
DashboardWindow == [start_date |-> 1, end_date |-> 1]

DashboardDateRange == "2024-07-01 to 2024-07-01"

\* export_data of lines 1038-1048
PdfExportData(insights_df, reviews_data) ==
    TablePayload({"date_range", "summary_metrics"}, DashboardDateRange,
                 SummaryMetricsOf(insights_df, reviews_data),
                 EmptyFrame, EmptyFrame)

TableIfAny(df) == IF IsEmpty(df) THEN EmptyFrame ELSE df

\* export_data of lines 1061-1072: both tables are always in the dict.
ExcelExportData(insights_df, reviews_data) ==
    TablePayload({"insights_data", "reviews_data", "summary_metrics"}, "",
                 SummaryMetricsOf(insights_df, reviews_data),
                 TableIfAny(insights_df), TableIfAny(reviews_data))

(***************************************************************************)
(* What the user and the API do                                            *)
(***************************************************************************)
\* The buttons the page of the previous run offered.
Buttons(session_state, configured) ==
    IF session_state.authenticated THEN {"none", "pdf", "excel"}
    ELSE {"none", "demo"}
         \cup (IF OAuthConfigured(configured) THEN {"start_auth"} ELSE {})
         \cup (IF OAuthConfigured(configured) /\ session_state.show_auth_code_input
               THEN {"complete_auth"} ELSE {})

\* The button of line 610 is offered once a code is entered.
AuthCodes(button) == IF button = "complete_auth" THEN {"good", "bad"} ELSE {""}

ApiLocation(name, title) == [name |-> name, title |-> title]

AccountA(raised, listed) ==
    Account({"name", "accountName"}, "accounts/1", "Brand A", raised, listed)

AccountListings ==
    {Listing("HttpError", <<>>),
     Listing("", <<AccountA("", <<ApiLocation("locations/1", "Main Street")>>)>>),
     Listing("", <<AccountA("", <<ApiLocation("locations/1", "Main Street"),
                                  ApiLocation("locations/2", "Harbour")>>)>>),
     Listing("", <<AccountA("HttpError", <<>>)>>),
     Listing("", <<Account({"accountName"}, "", "Brand C", "", <<>>)>>)}

MainInsightsApis ==
    {ApiError,
     ApiReturns(InsightsResponse(<<InsightsMetric("VIEWS_SEARCH", <<DailyValue(<<"3">>)>>)>>))}

MainReviewsApis ==
    {ReviewsApi("HttpError", <<>>),
     ReviewsApi("", <<>>),
     ReviewsApi("", <<Raw(Both, 5, TextExcellent), Raw(Both, 1, TextTerrible)>>)}

(***************************************************************************)
(* The runs of main                                                        *)
(***************************************************************************)
Init ==
    /\ pc = "idle"
    /\ session = NewSession
    /\ gmb = NewGMBAnalytics
    /\ secrets \in SecretsChoices
    /\ cycle = 0
    /\ RunIdle
    /\ SentimentIdle
    /\ ReportIdle
    /\ InsightsIdle
    /\ AuthIdle

\* The user interacts and the script runs from its top, with fresh locals.
Interact ==
    /\ pc = "idle"
    /\ cycle < MaxCycles
    /\ cycle' = cycle + 1
    /\ \E button \in Buttons(session, secrets) : \E auth_code \in AuthCodes(button) :
          widgets' = [button |-> button, auth_code |-> auth_code, selected_location |-> ""]
    /\ locations' = <<>>
    /\ loop_index' = 0
    /\ total_insights' = EmptyFrame
    /\ all_reviews' = EmptyFrame
    /\ location_insights' = EmptyFrame
    /\ location_reviews' = EmptyFrame
    /\ displayed' = NothingDisplayed
    /\ error' = ""
    /\ calls' = <<>>
    /\ fetched' = NothingFetched
    /\ sentiment_summary' = NotCalled
    /\ export_data' = NoPayload
    /\ pdf_story' = <<>>
    /\ excel_file' = NoFile
    /\ serializer_calls' = {}
    /\ pc' = "run"
    /\ UNCHANGED <<sessionVars, reviews_response, reviews_df, insightsVars, authVars>>

\* Lines 545-552: not authenticated, try the stored credentials.
LoadCredentials ==
    /\ pc = "run"
    /\ ~session.authenticated
    /\ \E stored \in StoredChoices, build_outcome \in {"ok", "error"} :
          LET loaded == load_credentials_from_session(gmb, session, stored, build_outcome)
          IN  /\ gmb' = loaded.self
              /\ session' = IF loaded.result
                            THEN [loaded.session_state EXCEPT !.authenticated = TRUE]
                            ELSE loaded.session_state
              /\ calls' = calls \o loaded.issued
              /\ pc' = IF loaded.result THEN "run" ELSE "auth"
              /\ widgets' = IF loaded.result THEN NoWidgets ELSE widgets
    /\ UNCHANGED <<secrets, cycle, locations, loop_index, total_insights, all_reviews,
                   location_insights, location_reviews, displayed, error, fetched,
                   sentimentVars, reportVars, insightsVars, authVars>>

\* Lines 583-593, then the return of line 655.
StartAuthentication ==
    /\ pc = "auth"
    /\ widgets.button = "start_auth"
    /\ OAuthConfigured(secrets)
    /\ session' = IF get_auth_url(secrets) # "None"
                  THEN [session EXCEPT !.show_auth_code_input = TRUE]
                  ELSE session
    /\ pc' = "idle"
    /\ UNCHANGED <<gmb, secrets, cycle, runVars, sentimentVars, reportVars, insightsVars, authVars>>

\* Lines 596-616: the code is exchanged; on success the script reruns, on
\* failure it shows the error and returns.
CompleteAuthentication ==
    /\ pc = "auth"
    /\ widgets.button = "complete_auth"
    /\ OAuthConfigured(secrets)
    /\ session.show_auth_code_input
    /\ widgets.auth_code # ""
    /\ \E exchange \in (IF widgets.auth_code = "good" THEN {"ok"} ELSE {"invalid_grant"}),
          build_outcome \in {"ok", "error"} :
          LET done == authenticate_with_code(gmb, session, secrets, widgets.auth_code,
                                             exchange, build_outcome)
          IN  /\ gmb' = done.self
              /\ session' = IF done.result
                            THEN [done.session_state EXCEPT !.authenticated = TRUE,
                                                            !.show_auth_code_input = FALSE]
                            ELSE done.session_state
              /\ calls' = calls \o done.issued
              /\ pc' = IF done.result THEN "run" ELSE "idle"
              /\ widgets' = IF done.result THEN NoWidgets ELSE widgets
    /\ UNCHANGED <<secrets, cycle, locations, loop_index, total_insights, all_reviews,
                   location_insights, location_reviews, displayed, error, fetched,
                   sentimentVars, reportVars, insightsVars, authVars>>

\* Lines 639-643: demo mode is switched on and the script reruns.
UseDemoData ==
    /\ pc = "auth"
    /\ widgets.button = "demo"
    /\ session' = [session EXCEPT !.authenticated = TRUE, !.demo_mode = TRUE]
    /\ widgets' = NoWidgets
    /\ pc' = "run"
    /\ UNCHANGED <<gmb, secrets, cycle, locations, loop_index, total_insights, all_reviews,
                   location_insights, location_reviews, displayed, error, calls, fetched,
                   sentimentVars, reportVars, insightsVars, authVars>>

\* Line 655: the authentication page is shown and the run ends.
AuthReturn ==
    /\ pc = "auth"
    /\ widgets.button = "none"
    /\ pc' = "idle"
    /\ UNCHANGED <<mainVars, sentimentVars, reportVars, insightsVars, authVars>>

LocationOptions(found) == {"All Locations"} \cup {found[i].name : i \in DOMAIN found}

\* Lines 657-707: the accounts caption, the locations, the sidebar and the
\* accumulators.  location_df['brand'] raises KeyError when there is no
\* location, which ends the run.
GetLocations ==
    /\ pc = "run"
    /\ session.authenticated
    /\ \E listing \in (IF gmb.service = "None" THEN {Listing("HttpError", <<>>)}
                       ELSE AccountListings) :
          LET found  == get_locations(gmb, listing)
              issued == (IF session.demo_mode THEN <<>> ELSE AccountsCalls(gmb))
                        \o AccountsCalls(gmb)
                        \o (IF gmb.service = "None" THEN <<>>
                            ELSE LocationsCalls(get_accounts(gmb, listing)))
          IN  /\ locations' = found
              /\ calls' = calls \o issued
              /\ IF found = <<>>
                 THEN /\ error' = "KeyError"
                      /\ pc' = "idle"
                      /\ UNCHANGED <<widgets, loop_index, total_insights, all_reviews>>
                 ELSE /\ \E selected_location \in LocationOptions(found) :
                            /\ widgets' = [widgets EXCEPT
                                              !.selected_location = selected_location]
                            /\ pc' = IF selected_location = "All Locations"
                                     THEN "overview" ELSE "location"
                      /\ total_insights' = NewAccumulator
                      /\ all_reviews' = NewAccumulator
                      /\ loop_index' = 1
                      /\ error' = ""
    /\ UNCHANGED <<sessionVars, cycle, location_insights, location_reviews, displayed,
                   fetched, sentimentVars, reportVars, insightsVars, authVars>>

\* Lines 715-726: one pass of the loop over filtered_locations.
FetchLocation ==
    /\ pc = "overview"
    /\ loop_index \in DOMAIN locations
    /\ \E insights_api \in MainInsightsApis, reviews_api \in MainReviewsApis :
       \E outcome \in get_insights(gmb.service, insights_api, locations[loop_index].id,
                                   DashboardWindow.start_date, DashboardWindow.end_date) :
          LET location == locations[loop_index]
              issued   == InsightsCalls(gmb, insights_api, location.id)
          IN  /\ IF outcome.raised # ""
                 THEN /\ calls' = calls \o issued
                      /\ error' = outcome.raised
                      /\ pc' = "idle"
                      /\ UNCHANGED <<loop_index, total_insights, all_reviews,
                                     location_insights, location_reviews, fetched>>
                 ELSE LET insights_df == WithLocation(outcome.value, location)
                          reviews_data ==
                              WithLocation(get_reviews(gmb, reviews_api, location.id), location)
                      IN  /\ calls' = calls \o issued
                                        \o ReviewsCalls(gmb, reviews_api, location.id)
                          /\ location_insights' = insights_df
                          /\ total_insights' = Concat(total_insights, insights_df)
                          /\ location_reviews' = reviews_data
                          /\ all_reviews' = Concat(all_reviews, reviews_data)
                          /\ fetched' = [insights |-> fetched.insights \o insights_df.rows,
                                         reviews  |-> fetched.reviews \o reviews_data.rows]
                          /\ loop_index' = loop_index + 1
                          /\ UNCHANGED <<error, pc>>
    /\ UNCHANGED <<sessionVars, cycle, widgets, locations, displayed,
                   sentimentVars, reportVars, insightsVars, authVars>>

\* Lines 728-874: the overview is rendered from the accumulators.
RenderOverview ==
    /\ pc = "overview"
    /\ loop_index > Len(locations)
    /\ displayed' = (IF IsEmpty(total_insights) THEN <<>> ELSE InsightsShown(total_insights))
                    \o (IF IsEmpty(all_reviews) THEN <<>> ELSE ReviewsShown(all_reviews))
    /\ all_reviews' = IF IsEmpty(all_reviews) THEN all_reviews ELSE ApplySentiment(all_reviews)
    /\ sentiment_summary' = IF IsEmpty(all_reviews) THEN NotCalled
                            ELSE generate_sentiment_summary(all_reviews', NoKeywords)
    /\ pc' = "export"
    /\ UNCHANGED <<sessionVars, cycle, widgets, locations, loop_index, total_insights,
                   location_insights, location_reviews, error, calls, fetched,
                   reviews_response, reviews_df, reportVars, insightsVars, authVars>>

\* filtered_locations[filtered_locations['name'] == selected_location].iloc[0]
LocationInfo(found, selected_location) ==
    found[CHOOSE i \in DOMAIN found :
             /\ found[i].name = selected_location
             /\ \A j \in 1..(i - 1) : found[j].name # selected_location]

\* Lines 881-891: the selected location is fetched.
FetchSelected ==
    /\ pc = "location"
    /\ \E insights_api \in MainInsightsApis, reviews_api \in MainReviewsApis :
       \E outcome \in get_insights(gmb.service, insights_api,
                                   LocationInfo(locations, widgets.selected_location).id,
                                   DashboardWindow.start_date, DashboardWindow.end_date) :
          LET location_info == LocationInfo(locations, widgets.selected_location)
              issued        == InsightsCalls(gmb, insights_api, location_info.id)
          IN  IF outcome.raised # ""
              THEN /\ calls' = calls \o issued
                   /\ error' = outcome.raised
                   /\ pc' = "idle"
                   /\ UNCHANGED <<location_insights, location_reviews, fetched>>
              ELSE /\ calls' = calls \o issued
                                 \o ReviewsCalls(gmb, reviews_api, location_info.id)
                   /\ location_insights' = outcome.value
                   /\ location_reviews' = get_reviews(gmb, reviews_api, location_info.id)
                   /\ fetched' = [insights |-> fetched.insights \o location_insights'.rows,
                                  reviews  |-> fetched.reviews \o location_reviews'.rows]
                   /\ pc' = "location fetched"
                   /\ UNCHANGED error
    /\ UNCHANGED <<sessionVars, cycle, widgets, locations, loop_index, total_insights,
                   all_reviews, displayed, sentimentVars, reportVars, insightsVars, authVars>>

\* Lines 893-1033: the location is rendered from insights and reviews.
RenderLocation ==
    /\ pc = "location fetched"
    /\ displayed' = InsightsShown(location_insights)
                    \o (IF IsEmpty(location_reviews) THEN <<>>
                        ELSE ReviewsShown(location_reviews))
    /\ location_reviews' = IF IsEmpty(location_reviews) THEN location_reviews
                           ELSE ApplySentiment(location_reviews)
    /\ sentiment_summary' = IF IsEmpty(location_reviews) THEN NotCalled
                            ELSE generate_sentiment_summary(location_reviews', NoKeywords)
    /\ pc' = "export"
    /\ UNCHANGED <<sessionVars, cycle, widgets, locations, loop_index, total_insights,
                   all_reviews, location_insights, error, calls, fetched,
                   reviews_response, reviews_df, reportVars, insightsVars, authVars>>

\* Lines 1036-1057
ExportPdf ==
    /\ pc = "export"
    /\ widgets.button = "pdf"
    /\ export_data' = PdfExportData(total_insights, all_reviews)
    /\ pdf_story' = create_pdf_report(export_data', "gmb_report.pdf")
    /\ serializer_calls' = serializer_calls \cup {<<"create_pdf_report", "gmb_report.pdf">>}
    /\ pc' = "idle"
    /\ UNCHANGED <<mainVars, excel_file, sentimentVars, insightsVars, authVars>>

\* Lines 1059-1081
ExportExcel ==
    /\ pc = "export"
    /\ widgets.button = "excel"
    /\ export_data' = ExcelExportData(total_insights, all_reviews)
    /\ excel_file' = export_to_excel(export_data', "gmb_data.xlsx")
    /\ serializer_calls' = serializer_calls \cup {<<"export_to_excel", "gmb_data.xlsx">>}
    /\ pc' = "idle"
    /\ UNCHANGED <<mainVars, pdf_story, sentimentVars, insightsVars, authVars>>

\* No export button was pressed: the footer, and the run ends.
NoExport ==
    /\ pc = "export"
    /\ widgets.button = "none"
    /\ pc' = "idle"
    /\ UNCHANGED <<mainVars, sentimentVars, reportVars, insightsVars, authVars>>

Next ==
    \/ Interact
    \/ LoadCredentials
    \/ StartAuthentication
    \/ CompleteAuthentication
    \/ UseDemoData
    \/ AuthReturn
    \/ GetLocations
    \/ FetchLocation
    \/ RenderOverview
    \/ FetchSelected
    \/ RenderLocation
    \/ ExportPdf
    \/ ExportExcel
    \/ NoExport

Spec == Init /\ [][Next]_vars

(***************************************************************************)
(* Claims about the runs of main                                           *)
(***************************************************************************)
RunEnded == pc = "idle" /\ cycle > 0

Overview == widgets.selected_location = "All Locations"

\* The frame main classifies and summarizes in the view shown.
Batch == IF Overview THEN all_reviews ELSE location_reviews

DataSheets ==
    {i \in DOMAIN excel_file.sheets : excel_file.sheets[i].name \in {"Insights", "Reviews"}}

\* C12: in a run that exports to Excel, a section without data is not
\* written: the workbook has no Insights or Reviews sheet with zero data rows.
C12_NoPlaceholderSheets ==
    ExcelCalled => \A i \in DataSheets : excel_file.sheets[i].rows # <<>>

RetriableCalls == {"fetch_token", "getInsights", "reviews.list"}

TimesIssued(issued) == Cardinality({i \in DOMAIN calls : calls[i] = issued})

\* C15: for one user interaction the code exchange, the insights fetch of a
\* location and the reviews fetch of a location are each issued at most
\* once, whether or not the call failed; the next one comes with the next
\* interaction.
C15_NoRetry ==
    \A i \in DOMAIN calls :
        calls[i].call \in RetriableCalls => TimesIssued(calls[i]) = 1

\* A cycle that exchanged the code, then fetched two locations, an insights
\* fetch having failed over to the demo figures.
C15_Witness ==
    /\ pc = "export"
    /\ Len(locations) = 2
    /\ Overview
    /\ \E i \in DOMAIN calls : calls[i].call = "fetch_token"
    /\ \E i \in DOMAIN fetched.insights : fetched.insights[i].search_impressions >= 50
    /\ Cardinality({i \in DOMAIN calls : calls[i].call = "getInsights"}) = 2
    /\ Cardinality({i \in DOMAIN calls : calls[i].call = "reviews.list"}) = 2

\* A review row as it was fetched, before classification.
Unlabelled(row) == [row EXCEPT !.sentiment = NoSentiment]

OnlyFetchedInsights(rows) == \A i \in DOMAIN rows : rows[i] \in Range(fetched.insights)

OnlyFetchedReviews(rows) ==
    \A i \in DOMAIN rows : Unlabelled(rows[i]) \in Range(fetched.reviews)

\* C16: every run starts from empty accumulators: the insights and reviews
\* tables a run renders or exports hold only rows fetched for the same
\* interaction, and in the overview all of them.
C16_OnlyThisCycleRows ==
    /\ OnlyFetchedInsights(total_insights.rows)
    /\ OnlyFetchedReviews(all_reviews.rows)
    /\ OnlyFetchedInsights(export_data.insights_data.rows)
    /\ OnlyFetchedReviews(export_data.reviews_data.rows)
    /\ (pc = "export" /\ Overview) =>
           /\ total_insights.rows = fetched.insights
           /\ Len(all_reviews.rows) = Len(fetched.reviews)

\* A later cycle exports the overview of rows it fetched itself.
C16_Witness ==
    /\ cycle >= 3
    /\ ExcelCalled
    /\ Overview
    /\ export_data.insights_data.rows # <<>>
    /\ export_data.reviews_data.rows # <<>>
    /\ Len(excel_file.sheets) = 3

\* C17: whenever main calls generate_sentiment_summary, every review of the
\* batch carries the sentiment analyze_sentiment gives its text.
C17_SummaryOfClassified ==
    sentiment_summary # NotCalled =>
        /\ "sentiment" \in Batch.columns
        /\ \A i \in DOMAIN Batch.rows :
               Batch.rows[i].sentiment = analyze_sentiment(Batch.rows[i].text)

C17_Witness ==
    /\ sentiment_summary.raised = ""
    /\ Len(sentiment_summary.value) >= 2
    /\ Len(Batch.rows) >= 2
    /\ cycle >= 2

\* C18: after 'Use Demo Data' without authenticating, the run that follows
\* gets the demo locations from get_locations and ends without an error.
C18_DemoDataDashboard ==
    (RunEnded /\ session.demo_mode /\ gmb.service = "None") =>
        /\ locations = _get_demo_locations
        /\ error = ""

FetchedFrame(rows) == [columns |-> IF rows = <<>> THEN {} ELSE {"fetched"}, rows |-> rows]

\* C19: in a run that exports, the summary_metrics handed to the serializer
\* are the totals of the insights rows and the statistics of the reviews
\* fetched in that run, and agree with every figure the run displayed, in
\* the overview and in the view of one location.
C19_ExportedTotals ==
    export_data # NoPayload =>
        /\ export_data.summary_metrics =
              SummaryMetricsOf(FetchedFrame(fetched.insights), FetchedFrame(fetched.reviews))
        /\ \A i \in DOMAIN displayed :
               \E j \in DOMAIN export_data.summary_metrics :
                   export_data.summary_metrics[j] = displayed[i]

FetchCalls == {"accounts.list", "locations.list", "getInsights", "reviews.list"}

NothingFetchedOrExported ==
    /\ \A i \in DOMAIN calls : calls[i].call \notin FetchCalls
    /\ fetched = NothingFetched
    /\ locations = <<>>
    /\ export_data = NoPayload
    /\ ~PdfCalled
    /\ ~ExcelCalled

\* The three ways into the dashboard, as the step that takes them.
BecameAuthenticated ==
    \/ /\ pc = "auth"
       /\ widgets.button = "complete_auth"
       /\ gmb'.service = "service"
       /\ session'.gmb_credentials # "None"
       /\ Len(calls') = Len(calls) + 1
       /\ calls'[Len(calls')].call = "fetch_token"
    \/ /\ pc = "run"
       /\ session.gmb_credentials # "None"
       /\ gmb'.service = "service"
    \/ /\ pc = "auth"
       /\ widgets.button = "demo"
       /\ session'.demo_mode

\* C21: while authenticated is False a run fetches no accounts, locations,
\* insights or reviews and exports nothing; authenticated becomes True only
\* by a successful authenticate_with_code, a successful
\* load_credentials_from_session or the 'Use Demo Data' button, and once
\* True it stays True.
C21_AuthenticationGate ==
    /\ [](~session.authenticated => NothingFetchedOrExported)
    /\ [][/\ session.authenticated => session'.authenticated
          /\ (~session.authenticated /\ session'.authenticated) => BecameAuthenticated]_vars

\* An authenticated run, entered by the code exchange, that has fetched.
C21_Witness ==
    /\ session.authenticated
    /\ ~session.demo_mode
    /\ gmb.service = "service"
    /\ fetched.insights # <<>>
    /\ \E i \in DOMAIN calls : calls[i].call = "fetch_token"

(***************************************************************************)
(* The two authentication methods on their own: each step is one call on   *)
(* the GMBAnalytics object kept in the session state, with the outcomes   *)
(* of the token exchange, the refresh and build chosen by the environment. *)
(***************************************************************************)

AuthCall(method, result, self, session_state, stored, issued) ==
    [method |-> method, result |-> result, self_before |-> self,
     session_before |-> session_state, stored |-> stored, issued |-> issued]

\* The object as constructed, or as a successful authentication left it.
AuthObjects == {NewGMBAnalytics, [service |-> "service", credentials |-> "credentials"]}

InitAuth ==
    /\ pc = "auth methods"
    /\ gmb \in AuthObjects
    /\ session \in {[NewSession EXCEPT !.gmb_credentials = c, !.show_auth_code_input = shown] :
                        c \in {"None", "token"}, shown \in BOOLEAN}
    /\ secrets \in SecretsChoices
    /\ auth_call = NoAuthCall
    /\ cycle = 0
    /\ RunIdle
    /\ SentimentIdle
    /\ ReportIdle
    /\ InsightsIdle

\* gmb.authenticate_with_code(auth_code)
AuthenticateWithCode ==
    /\ pc = "auth methods"
    /\ \E auth_code \in AuthCodes("complete_auth") :
       \E exchange \in (IF auth_code = "good" THEN {"ok"} ELSE {"invalid_grant"}),
          build_outcome \in {"ok", "error"} :
          LET done == authenticate_with_code(gmb, session, secrets, auth_code,
                                             exchange, build_outcome)
          IN  /\ gmb' = done.self
              /\ session' = done.session_state
              /\ auth_call' = AuthCall("authenticate_with_code", done.result, gmb,
                                       session, "", done.issued)
    /\ UNCHANGED <<pc, secrets, cycle, runVars, sentimentVars, reportVars, insightsVars>>

\* gmb.load_credentials_from_session()
LoadCredentialsFromSession ==
    /\ pc = "auth methods"
    /\ \E stored \in StoredChoices, build_outcome \in {"ok", "error"} :
          LET loaded == load_credentials_from_session(gmb, session, stored, build_outcome)
          IN  /\ gmb' = loaded.self
              /\ session' = loaded.session_state
              /\ auth_call' = AuthCall("load_credentials_from_session", loaded.result,
                                       gmb, session,
                                       IF session.gmb_credentials = "None" THEN ""
                                       ELSE stored,
                                       loaded.issued)
    /\ UNCHANGED <<pc, secrets, cycle, runVars, sentimentVars, reportVars, insightsVars>>

NextAuth == AuthenticateWithCode \/ LoadCredentialsFromSession

SpecAuth == InitAuth /\ [][NextAuth]_vars

AuthenticateReturned == auth_call.method = "authenticate_with_code"

LoadReturned == auth_call.method = "load_credentials_from_session"

\* C22: authenticate_with_code returns True only with the credentials stored
\* under 'gmb_credentials' and the service built, and whenever it returns
\* False the object's credentials and service and the session state are as
\* they were before the call.
C22_FailureChangesNothing ==
    AuthenticateReturned =>
        IF auth_call.result
        THEN /\ session.gmb_credentials # "None"
             /\ gmb.service = "service"
        ELSE /\ gmb = auth_call.self_before
             /\ session = auth_call.session_before

\* C23: load_credentials_from_session returns True only when credentials are
\* stored and the service was built, the stored token being the refreshed
\* one when the credentials were expired; when loading or refreshing raises
\* the stored credentials are removed and False is returned, so that the
\* call after it finds none and attempts nothing; with nothing stored it
\* returns False and changes nothing.
C23_LoadCredentials ==
    /\ [](LoadReturned =>
            IF auth_call.result
            THEN /\ auth_call.session_before.gmb_credentials # "None"
                 /\ gmb.service = "service"
                 /\ session.gmb_credentials =
                       IF auth_call.stored = "refreshable" THEN "refreshed token"
                       ELSE auth_call.session_before.gmb_credentials
            ELSE IF auth_call.session_before.gmb_credentials # "None"
            THEN session.gmb_credentials = "None"
            ELSE /\ gmb = auth_call.self_before
                 /\ session = auth_call.session_before
                 /\ auth_call.issued = <<>>)
    /\ [][(/\ LoadReturned
           /\ ~auth_call.result
           /\ auth_call'.method = "load_credentials_from_session")
          => /\ ~auth_call'.result
             /\ auth_call'.issued = <<>>
             /\ gmb' = gmb
             /\ session' = session]_vars

\* A refresh that raised: the stored token is gone and False was returned.
C23_Witness ==
    /\ LoadReturned
    /\ ~auth_call.result
    /\ auth_call.stored = "revoked"
    /\ auth_call.session_before.gmb_credentials = "token"
    /\ auth_call.issued # <<>>
    /\ session.gmb_credentials = "None"

====
